---- MODULE Spec2Model ----
(***************************************************************************)
(* Model of awswrangler's type mapper and schema inferrer                  *)
(* (awswrangler/_data_types.py).                                           *)
(*                                                                         *)
(* Strings are TLA+ strings, taken apart with Len, SubSeq and \o, so that  *)
(* lower(), "in", startswith, replace, split, int() and the f-strings are  *)
(* computed the way the Python code computes them.  Columnar (pyarrow)     *)
(* types are records tagged by the field k.  A call that raises is an      *)
(* outcome whose status is the name of the exception.                      *)
(***************************************************************************)
EXTENDS Integers, Sequences, FiniteSets, TLC

(***************************************************************************)
(* Bounds of the model.                                                    *)
(***************************************************************************)
\* decimal(p,s) is enumerated for 1 <= p <= MaxPrecision, 0 <= s <= p
MaxPrecision == 3
\* nesting depth of list / dictionary / struct types given to pyarrow2athena
MaxDepth == 2
\* number of declared columns of a table
MaxCols == 3

(***************************************************************************)
(* Python str operations.                                                  *)
(***************************************************************************)
Char(s, i) == SubSeq(s, i, i)

UpperAlphabet == "ABCDEFGHIJKLMNOPQRSTUVWXYZ"

LowerAlphabet == "abcdefghijklmnopqrstuvwxyz"

Digits == "0123456789"

LowerChar(c) ==
    IF \E i \in 1..Len(UpperAlphabet) : Char(UpperAlphabet, i) = c
    THEN Char(LowerAlphabet, CHOOSE i \in 1..Len(UpperAlphabet) : Char(UpperAlphabet, i) = c)
    ELSE c

UpperChar(c) ==
    IF \E i \in 1..Len(LowerAlphabet) : Char(LowerAlphabet, i) = c
    THEN Char(UpperAlphabet, CHOOSE i \in 1..Len(LowerAlphabet) : Char(LowerAlphabet, i) = c)
    ELSE c

RECURSIVE Lower(_)
\* str.lower()
Lower(s) ==
    IF Len(s) = 0 THEN "" ELSE LowerChar(Char(s, 1)) \o Lower(SubSeq(s, 2, Len(s)))

RECURSIVE Upper(_)
\* str.upper(), used to spell the inputs in another letter case
Upper(s) ==
    IF Len(s) = 0 THEN "" ELSE UpperChar(Char(s, 1)) \o Upper(SubSeq(s, 2, Len(s)))

\* str.capitalize() of a lower-case string
Capitalize(s) ==
    IF Len(s) = 0 THEN "" ELSE UpperChar(Char(s, 1)) \o SubSeq(s, 2, Len(s))

\* the position of the first occurrence of sub in s, 0 when there is none
Find(s, sub) ==
    LET hits == {i \in 1..(Len(s) - Len(sub) + 1) : SubSeq(s, i, i + Len(sub) - 1) = sub}
    IN  IF hits = {} THEN 0 ELSE CHOOSE i \in hits : \A j \in hits : i <= j

\* Python's  sub in s  on two strings: substring containment
Contains(sub, s) ==
    \E i \in 0..(Len(s) - Len(sub)) : SubSeq(s, i + 1, i + Len(sub)) = sub

\* str.startswith
StartsWith(s, prefix) ==
    /\ Len(s) >= Len(prefix)
    /\ SubSeq(s, 1, Len(prefix)) = prefix

RECURSIVE Replace(_, _, _)
\* str.replace(old, new), old non-empty: every occurrence, left to right
Replace(s, old, new) ==
    LET i == Find(s, old)
    IN  IF i = 0 THEN s
        ELSE SubSeq(s, 1, i - 1) \o new \o Replace(SubSeq(s, i + Len(old), Len(s)), old, new)

RECURSIVE Split(_, _)
\* str.split(sep=sep): the list of the pieces between the separators
Split(s, sep) ==
    LET i == Find(s, sep)
    IN  IF i = 0 THEN <<s>>
        ELSE <<SubSeq(s, 1, i - 1)>> \o Split(SubSeq(s, i + Len(sep), Len(s)), sep)

RECURSIVE Strip(_)
\* str.strip() for the blank character
Strip(s) ==
    IF Len(s) = 0 THEN s
    ELSE IF Char(s, 1) = " " THEN Strip(SubSeq(s, 2, Len(s)))
    ELSE IF Char(s, Len(s)) = " " THEN Strip(SubSeq(s, 1, Len(s) - 1))
    ELSE s

IsDigit(c) == \E i \in 1..Len(Digits) : Char(Digits, i) = c

DigitValue(c) == (CHOOSE i \in 1..Len(Digits) : Char(Digits, i) = c) - 1

RECURSIVE DigitsValue(_, _)
DigitsValue(s, acc) ==
    IF Len(s) = 0 THEN acc
    ELSE DigitsValue(SubSeq(s, 2, Len(s)), 10 * acc + DigitValue(Char(s, 1)))

\* int(s): surrounding blanks are ignored, then an optional sign and decimal
\* digits; anything else raises ValueError
ParseInt(s) ==
    LET t == Strip(s)
        signed == Len(t) > 0 /\ Char(t, 1) \in {"+", "-"}
        body == IF signed THEN SubSeq(t, 2, Len(t)) ELSE t
    IN  IF Len(body) > 0 /\ \A i \in 1..Len(body) : IsDigit(Char(body, i))
        THEN [ok |-> TRUE,
              val |-> IF signed /\ Char(t, 1) = "-"
                      THEN 0 - DigitsValue(body, 0) ELSE DigitsValue(body, 0)]
        ELSE [ok |-> FALSE, val |-> 0]

RECURSIVE NatToStr(_)
NatToStr(n) ==
    IF n < 10 THEN Char(Digits, n + 1)
    ELSE NatToStr(n \div 10) \o Char(Digits, (n % 10) + 1)

\* str(n), as the f-string renders an int
IntToStr(n) == IF n < 0 THEN "-" \o NatToStr(0 - n) ELSE NatToStr(n)

(***************************************************************************)
(* Columnar (pyarrow) types.                                               *)
(***************************************************************************)
PaInt8 == [k |-> "int8"]

PaInt16 == [k |-> "int16"]

PaInt32 == [k |-> "int32"]

PaInt64 == [k |-> "int64"]

PaFloat32 == [k |-> "float32"]

PaFloat64 == [k |-> "float64"]

PaBool == [k |-> "bool"]

PaString == [k |-> "string"]

PaTimestamp(unit) == [k |-> "timestamp", unit |-> unit]

PaDate32 == [k |-> "date32"]

PaDate64 == [k |-> "date64"]

PaBinary == [k |-> "binary"]

PaDecimal128(p, s) == [k |-> "decimal128", p |-> p, s |-> s]

PaList(t) == [k |-> "list", v |-> t]

PaDictionary(t) == [k |-> "dictionary", v |-> t]

PaField(n, t) == [name |-> n, type |-> t]

PaStruct(fields) == [k |-> "struct", fields |-> fields]

\* pa.null(): the untyped marker
PaNull == [k |-> "null"]

\* a columnar type pyarrow2athena has no branch for
PaUInt8 == [k |-> "uint8"]

\* Python's None where a columnar type is expected
NoType == [k |-> "none"]

(***************************************************************************)
(* Outcomes of a call: a returned value, or the exception raised.          *)
(***************************************************************************)
ReturnType(t) == [status |-> "ok", type |-> t]

RaiseType(e) == [status |-> e, type |-> NoType]

ReturnStr(s) == [status |-> "ok", str |-> s]

RaiseStr(e) == [status |-> e, str |-> ""]

(***************************************************************************)
(* athena2pyarrow                                                          *)
(***************************************************************************)
\* line 39:  dtype in ("binary" or "varbinary").  The parenthesised  or
\* evaluates to its first operand, a non-empty string, so the test is the
\* substring test  dtype in "binary".
InBinaryOrVarbinary(dtype) == Contains(dtype, "binary")

\* lines 41-43: strip "decimal(" and ")", split on ",", unpack two ints
DecimalFromTag(dtype) ==
    LET parts == Split(Replace(Replace(dtype, "decimal(", ""), ")", ""), ",")
    IN  IF Len(parts) # 2 THEN RaiseType("ValueError")
        ELSE LET precision == ParseInt(parts[1])
                 scale == ParseInt(parts[2])
             IN  IF precision.ok /\ scale.ok
                 THEN ReturnType(PaDecimal128(precision.val, scale.val))
                 ELSE RaiseType("ValueError")

athena2pyarrow(tag) ==
    LET dtype == Lower(tag)
    IN  IF dtype = "tinyint" THEN ReturnType(PaInt8)
        ELSE IF dtype = "smallint" THEN ReturnType(PaInt16)
        ELSE IF dtype \in {"int", "integer"} THEN ReturnType(PaInt32)
        ELSE IF dtype = "bigint" THEN ReturnType(PaInt64)
        ELSE IF dtype = "float" THEN ReturnType(PaFloat32)
        ELSE IF dtype = "double" THEN ReturnType(PaFloat64)
        ELSE IF dtype = "boolean" THEN ReturnType(PaBool)
        ELSE IF dtype \in {"string", "char", "varchar", "array", "row", "map"}
             THEN ReturnType(PaString)
        ELSE IF dtype = "timestamp" THEN ReturnType(PaTimestamp("ns"))
        ELSE IF dtype = "date" THEN ReturnType(PaDate32)
        ELSE IF InBinaryOrVarbinary(dtype) THEN ReturnType(PaBinary)
        ELSE IF StartsWith(dtype, "decimal") THEN DecimalFromTag(dtype)
        ELSE RaiseType("UnsupportedType")

(***************************************************************************)
(* pyarrow2athena                                                          *)
(***************************************************************************)
\* a plausible slip: precision and scale rendered in the wrong order
DecimalTagSwapped(dtype) ==
    "decimal(" \o IntToStr(dtype.s) \o "," \o IntToStr(dtype.p) \o ")"

\* line 74
DecimalTag(dtype) == "decimal(" \o IntToStr(dtype.p) \o "," \o IntToStr(dtype.s) \o ")"

\* line 76
ArrayTag(inner) == "array<" \o inner \o ">"

\* line 78: one rendered field, and the join of the rendered fields
FieldTag(name, inner) == name \o ": " \o inner

RECURSIVE JoinStr(_, _)
JoinStr(sep, items) ==
    IF Len(items) = 0 THEN ""
    ELSE IF Len(items) = 1 THEN items[1]
    ELSE items[1] \o sep \o JoinStr(sep, Tail(items))

\* a plausible slip: the fields joined by a bare comma
StructTagBareComma(rendered) == "struct<" \o JoinStr(",", rendered) \o ">"

StructTag(rendered) == "struct<" \o JoinStr(", ", rendered) \o ">"

\* line 72: the type a dictionary-encoded type is rendered as
DictionaryValueType(dtype) == dtype.v

\* a plausible slip: the untyped marker defaults to "string"
UntypedDefaultsToString == ReturnStr("string")

\* lines 79-80: the untyped marker raises UndetectedType
UntypedOutcome == RaiseStr("UndetectedType")

RECURSIVE pyarrow2athena(_)
RECURSIVE RenderFields(_, _)
\* the list comprehension of line 78: the fields in declaration order; the
\* first field whose type cannot be rendered raises
RenderFields(fields, done) ==
    IF Len(fields) = 0 THEN [status |-> "ok", items |-> done]
    ELSE LET f == Head(fields)
             r == pyarrow2athena(f.type)
         IN  IF r.status # "ok" THEN [status |-> r.status, items |-> <<>>]
             ELSE RenderFields(Tail(fields), Append(done, FieldTag(f.name, r.str)))

pyarrow2athena(dtype) ==
    IF dtype.k = "int8" THEN ReturnStr("tinyint")
    ELSE IF dtype.k = "int16" THEN ReturnStr("smallint")
    ELSE IF dtype.k = "int32" THEN ReturnStr("int")
    ELSE IF dtype.k = "int64" THEN ReturnStr("bigint")
    ELSE IF dtype.k = "float32" THEN ReturnStr("float")
    ELSE IF dtype.k = "float64" THEN ReturnStr("double")
    ELSE IF dtype.k = "bool" THEN ReturnStr("boolean")
    ELSE IF dtype.k = "string" THEN ReturnStr("string")
    ELSE IF dtype.k = "timestamp" THEN ReturnStr("timestamp")
    ELSE IF dtype.k \in {"date32", "date64"} THEN ReturnStr("date")
    ELSE IF dtype.k = "binary" THEN ReturnStr("binary")
    ELSE IF dtype.k = "dictionary" THEN pyarrow2athena(DictionaryValueType(dtype))
    ELSE IF dtype.k = "decimal128" THEN ReturnStr(DecimalTag(dtype))
    ELSE IF dtype.k = "list"
         THEN LET r == pyarrow2athena(dtype.v)
              IN  IF r.status = "ok" THEN ReturnStr(ArrayTag(r.str)) ELSE r
    ELSE IF dtype.k = "struct"
         THEN LET r == RenderFields(dtype.fields, <<>>)
              IN  IF r.status = "ok" THEN ReturnStr(StructTag(r.items))
                  ELSE RaiseStr(r.status)
    ELSE IF dtype = PaNull THEN UntypedOutcome
    ELSE RaiseStr("UnsupportedType")

(***************************************************************************)
(* athena2pandas                                                           *)
(***************************************************************************)
athena2pandas(tag) ==
    LET dtype == Lower(tag)
    IN  IF dtype = "tinyint" THEN ReturnStr("Int8")
        ELSE IF dtype = "smallint" THEN ReturnStr("Int16")
        ELSE IF dtype \in {"int", "integer"} THEN ReturnStr("Int32")
        ELSE IF dtype = "bigint" THEN ReturnStr("Int64")
        ELSE IF dtype = "float" THEN ReturnStr("float32")
        ELSE IF dtype = "double" THEN ReturnStr("float64")
        ELSE IF dtype = "boolean" THEN ReturnStr("boolean")
        ELSE IF dtype \in {"string", "char", "varchar"} THEN ReturnStr("string")
        ELSE IF dtype \in {"timestamp", "timestamp with time zone"}
             THEN ReturnStr("datetime64")
        ELSE IF dtype = "date" THEN ReturnStr("date")
        ELSE IF StartsWith(dtype, "decimal") THEN ReturnStr("decimal")
        ELSE IF dtype \in {"binary", "varbinary"} THEN ReturnStr("bytes")
        ELSE IF dtype = "array" THEN ReturnStr("list")
        ELSE RaiseStr("UnsupportedType")

(***************************************************************************)
(* Python dicts: a sequence of entries [k, v] in insertion order, keys     *)
(* distinct.                                                               *)
(***************************************************************************)
DictKeys(d) == [i \in 1..Len(d) |-> d[i].k]

DictHas(d, key) == \E i \in 1..Len(d) : d[i].k = key

DictGet(d, key) == d[CHOOSE i \in 1..Len(d) : d[i].k = key].v

\* d[key] = val: a present key keeps its place, a new key goes last
DictSet(d, key, val) ==
    IF DictHas(d, key)
    THEN [i \in 1..Len(d) |-> IF d[i].k = key THEN [k |-> key, v |-> val] ELSE d[i]]
    ELSE Append(d, [k |-> key, v |-> val])

\* Python's  x in list
InList(x, list) == \E i \in 1..Len(list) : list[i] = x

\* an Optional argument: None, or a value
None == [some |-> FALSE, val |-> <<>>]

Some(x) == [some |-> TRUE, val |-> x]

\* Python's  arg if arg else default  for a list or dict argument: None and
\* the empty container are both falsy
OrEmpty(arg) == IF arg.some /\ Len(arg.val) > 0 THEN arg.val ELSE <<>>

(***************************************************************************)
(* Tables (pandas DataFrames), as far as schema inference reads them: the  *)
(* declared columns in order, each with the string of its pandas dtype and *)
(* the columnar type pa.Schema.from_pandas infers for it, and the index.   *)
(***************************************************************************)
Column(name, dtype, inferred) == [name |-> name, dtype |-> dtype, inferred |-> inferred]

\* the field pa.Schema.from_pandas adds for an unnamed RangeIndex
IndexField == PaField("__index_level_0__", PaInt64)

DfColumns(df) == [i \in 1..Len(df) |-> df[i].name]

\* pa.Schema.from_pandas(df=df[cols], preserve_index=index): one field per
\* selected column, in the order of cols, then the index when it is preserved
SchemaFromPandas(df, cols, index) ==
    [i \in 1..Len(cols) |->
        PaField(cols[i], df[CHOOSE j \in 1..Len(df) : df[j].name = cols[i]].inferred)]
    \o (IF index THEN <<IndexField>> ELSE <<>>)

(***************************************************************************)
(* pyarrow_types_from_pandas                                               *)
(***************************************************************************)
\* lines 147-156: the pandas extension dtypes that are typed directly
ExtensionDtypes == {"Int8", "Int16", "Int32", "Int64", "string"}

ExtensionType(dtype) ==
    IF dtype = "Int8" THEN PaInt8
    ELSE IF dtype = "Int16" THEN PaInt16
    ELSE IF dtype = "Int32" THEN PaInt32
    ELSE IF dtype = "Int64" THEN PaInt64
    ELSE PaString

RECURSIVE ScanDtypes(_, _, _, _)
\* lines 143-158: the loop over df.dtypes; acc = [cols, cols_dtypes]
ScanDtypes(df, i, ignore_cols, acc) ==
    IF i > Len(df) THEN acc
    ELSE LET name == df[i].name
             dtype == df[i].dtype
         IN  ScanDtypes(df, i + 1, ignore_cols,
                 IF InList(name, ignore_cols)
                 THEN [acc EXCEPT !.cols_dtypes = DictSet(@, name, NoType)]
                 ELSE IF dtype \in ExtensionDtypes
                 THEN [acc EXCEPT !.cols_dtypes = DictSet(@, name, ExtensionType(dtype))]
                 ELSE [acc EXCEPT !.cols = Append(@, name)])

RECURSIVE ScanFields(_, _, _, _, _)
\* lines 161-166: the loop over the inferred fields; acc = [cols_dtypes, indexes]
ScanFields(fields, i, df, index, acc) ==
    IF i > Len(fields) THEN acc
    ELSE LET name == fields[i].name
             typed == [acc EXCEPT !.cols_dtypes = DictSet(@, name, fields[i].type)]
         IN  ScanFields(fields, i + 1, df, index,
                 IF ~InList(name, DfColumns(df)) /\ index
                 THEN [typed EXCEPT !.indexes = Append(@, name)]
                 ELSE typed)

pyarrow_types_from_pandas(df, index, ignore_cols) ==
    LET first == ScanDtypes(df, 1, ignore_cols, [cols |-> <<>>, cols_dtypes |-> <<>>])
        second == ScanFields(SchemaFromPandas(df, first.cols, index), 1, df, index,
                             [cols_dtypes |-> first.cols_dtypes, indexes |-> <<>>])
        names == DfColumns(df) \o second.indexes
    IN  [i \in 1..Len(names) |->
            [k |-> names[i], v |-> DictGet(second.cols_dtypes, names[i])]]

(***************************************************************************)
(* athena_types_from_pandas                                                *)
(***************************************************************************)
\* a plausible slip: the override normalised to lower case on the way out
OverrideTypeLowered(casts, k) == Lower(DictGet(casts, k))

\* line 186: the catalog type of a column whose columnar type is None
OverrideType(casts, k) == DictGet(casts, k)

RECURSIVE ConvertTypes(_, _, _, _)
\* lines 184-188: the loop over pa_columns_types; the first column whose
\* type pyarrow2athena cannot render raises
ConvertTypes(pa_columns_types, i, casts, athena_columns_types) ==
    IF i > Len(pa_columns_types) THEN [status |-> "ok", types |-> athena_columns_types]
    ELSE LET k == pa_columns_types[i].k
             v == pa_columns_types[i].v
         IN  IF v = NoType
             THEN ConvertTypes(pa_columns_types, i + 1, casts,
                      DictSet(athena_columns_types, k, OverrideType(casts, k)))
             ELSE LET r == pyarrow2athena(v)
                  IN  IF r.status # "ok" THEN [status |-> r.status, types |-> <<>>]
                      ELSE ConvertTypes(pa_columns_types, i + 1, casts,
                               DictSet(athena_columns_types, k, r.str))

athena_types_from_pandas(df, index, cast_columns) ==
    LET casts == OrEmpty(cast_columns)
        pa_columns_types == pyarrow_types_from_pandas(df, index, DictKeys(casts))
    IN  ConvertTypes(pa_columns_types, 1, casts, <<>>)

(***************************************************************************)
(* athena_types_from_pandas_partitioned                                    *)
(***************************************************************************)
\* a plausible slip: only the first partition key is looked at
IsFirstPartitionColumn(k, partitions) == Len(partitions) > 0 /\ partitions[1] = k

\* line 205: whether column k goes to the partition map
IsPartitionColumn(k, partitions) == InList(k, partitions)

RECURSIVE SplitTypes(_, _, _, _)
\* lines 204-208: the loop over athena_columns_types;
\* acc = [columns_types, partitions_types]
SplitTypes(athena_columns_types, i, partitions, acc) ==
    IF i > Len(athena_columns_types) THEN acc
    ELSE LET k == athena_columns_types[i].k
             v == athena_columns_types[i].v
         IN  SplitTypes(athena_columns_types, i + 1, partitions,
                 IF IsPartitionColumn(k, partitions)
                 THEN [acc EXCEPT !.partitions_types = DictSet(@, k, v)]
                 ELSE [acc EXCEPT !.columns_types = DictSet(@, k, v)])

athena_types_from_pandas_partitioned(df, index, partition_cols, cast_columns) ==
    LET partitions == OrEmpty(partition_cols)
        r == athena_types_from_pandas(df, index, cast_columns)
    IN  IF r.status # "ok"
        THEN [status |-> r.status, columns_types |-> <<>>, partitions_types |-> <<>>]
        ELSE LET split == SplitTypes(r.types, 1, partitions,
                                     [columns_types |-> <<>>, partitions_types |-> <<>>])
             IN  [status |-> "ok", columns_types |-> split.columns_types,
                  partitions_types |-> split.partitions_types]

(***************************************************************************)
(* Partition paths (athena_partitions_from_pyarrow_partitions).  A         *)
(* partition key as pyarrow reports it is a record of its name and of its  *)
(* keys, the list of the key's distinct values.                            *)
(***************************************************************************)
PartitionSet(name, keys) == [name |-> name, keys |-> keys]

\* s[-1] == "/" on a non-empty string
EndsWithSlash(s) == Char(s, Len(s)) = "/"

\* a mutant of WithTrailingSlash: the separator is appended in every case
AlwaysAppendSlash(s) == s \o "/"

\* s if s[-1] == "/" else f"{s}/"
WithTrailingSlash(s) == IF EndsWithSlash(s) THEN s ELSE s \o "/"

\* the number of tuples zip(*[p.keys for p in partitions]) yields: the
\* length of the shortest list, and none at all for no list
ZipLen(partitions) ==
    IF Len(partitions) = 0 THEN 0
    ELSE CHOOSE n \in {Len(partitions[j].keys) : j \in 1..Len(partitions)} :
             \A j \in 1..Len(partitions) : n <= Len(partitions[j].keys)

\* the i-th tuple of the zip: the i-th value of every key
ZipValues(partitions, i) == [j \in 1..Len(partitions) |-> partitions[j].keys[i]]

\* "/".join([f"{n}={v}" for n, v in zip(names, values)])
PartitionSuffix(names, values) ==
    JoinStr("/", [j \in 1..Len(names) |-> names[j] \o "=" \o values[j]])

RECURSIVE PartitionsLoop(_, _, _, _, _)
\* the for loop, started at the i-th tuple with partitions_values built so far
PartitionsLoop(path, names, partitions, i, partitions_values) ==
    IF i > ZipLen(partitions) THEN partitions_values
    ELSE LET values == ZipValues(partitions, i)
             suffix == WithTrailingSlash(PartitionSuffix(names, values))
         IN  PartitionsLoop(path, names, partitions, i + 1,
                            DictSet(partitions_values, path \o suffix, values))

\* path[-1] of an empty path raises IndexError
athena_partitions_from_pyarrow_partitions(path, partitions) ==
    IF Len(path) = 0
    THEN [status |-> "IndexError", partitions_values |-> <<>>]
    ELSE LET names == [j \in 1..Len(partitions) |-> partitions[j].name]
         IN  [status |-> "ok",
              partitions_values |->
                  PartitionsLoop(WithTrailingSlash(path), names, partitions, 1, <<>>)]

(***************************************************************************)
(* The caster (cast_pandas_with_athena_types).  A table is the list of its *)
(* columns, each a record of its name and of its values; a value is a      *)
(* record tagged by the field kind.  The source columns hold Python        *)
(* strings and missing values.                                             *)
(***************************************************************************)
\* a Python str
StrCell(s) == [kind |-> "str", val |-> s]
\* a missing value of the source column (None / NaN), pandas.NA once the
\* column is a string column
NACell == [kind |-> "NA", val |-> ""]
\* pandas.NaT
NaTCell == [kind |-> "NaT", val |-> ""]
\* Python's None
NoneCell == [kind |-> "None", val |-> ""]
\* pandas.Timestamp, datetime.date, bytes and decimal.Decimal values, each
\* with the text it was made from
TimestampCell(s) == [kind |-> "Timestamp", val |-> s]
DateCell(s) == [kind |-> "date", val |-> s]
BytesCell(s) == [kind |-> "bytes", val |-> s]
DecimalCell(s) == [kind |-> "Decimal", val |-> s]

ValuesColumn(name, values) == [name |-> name, values |-> values]

\* col in df.columns
HasColumn(df, col) == \E i \in 1..Len(df) : df[i].name = col

\* df[col]
ColumnValues(df, col) == df[CHOOSE i \in 1..Len(df) : df[i].name = col].values

\* a mutant of SetColumn: the values land in the first column
SetFirstColumn(df, col, values) ==
    [i \in 1..Len(df) |-> IF i = 1 THEN ValuesColumn(df[i].name, values) ELSE df[i]]

\* df[col] = values: the column keeps its place
SetColumn(df, col, values) ==
    [i \in 1..Len(df) |-> IF df[i].name = col THEN ValuesColumn(col, values) ELSE df[i]]

AllDigits(s) == Len(s) > 0 /\ \A i \in 1..Len(s) : IsDigit(Char(s, i))

\* a number of the given width within lo..hi
FieldIn(s, lo, hi) ==
    AllDigits(s) /\ DigitsValue(s, 0) >= lo /\ DigitsValue(s, 0) <= hi

\* the number of days of month m of year y
DaysIn(y, m) ==
    IF m \in {4, 6, 9, 11} THEN 30
    ELSE IF m # 2 THEN 31
    ELSE IF (y % 4 = 0 /\ y % 100 # 0) \/ y % 400 = 0 THEN 29
    ELSE 28

\* YYYY-MM-DD, a day of the calendar
IsIsoDate(s) ==
    /\ Len(s) = 10
    /\ AllDigits(SubSeq(s, 1, 4))
    /\ Char(s, 5) = "-" /\ FieldIn(SubSeq(s, 6, 7), 1, 12)
    /\ Char(s, 8) = "-"
    /\ FieldIn(SubSeq(s, 9, 10), 1,
               DaysIn(DigitsValue(SubSeq(s, 1, 4), 0), DigitsValue(SubSeq(s, 6, 7), 0)))

\* HH:MM:SS
IsIsoTime(s) ==
    /\ Len(s) = 8
    /\ FieldIn(SubSeq(s, 1, 2), 0, 23)
    /\ Char(s, 3) = ":" /\ FieldIn(SubSeq(s, 4, 5), 0, 59)
    /\ Char(s, 6) = ":" /\ FieldIn(SubSeq(s, 7, 8), 0, 59)

\* an ISO date, alone or followed by a time of day
IsIsoTimestamp(s) ==
    \/ IsIsoDate(s)
    \/ /\ Len(s) = 19
       /\ IsIsoDate(SubSeq(s, 1, 10))
       /\ Char(s, 11) \in {" ", "T"}
       /\ IsIsoTime(SubSeq(s, 12, 19))

\* the strings pandas reads as a missing timestamp
NatStrings == {"", "NaT", "nat", "NAT", "nan", "NaN", "NAN"}

\* pd.to_datetime of one value (errors="raise", the default): a missing value
\* and the strings of NatStrings give NaT, a timestamp is parsed, any other
\* string raises
ToDatetimeCell(x) ==
    IF x.kind \in {"NA", "None", "NaT"} THEN [ok |-> TRUE, cell |-> NaTCell]
    ELSE IF x.kind = "Timestamp" THEN [ok |-> TRUE, cell |-> x]
    ELSE IF x.val \in NatStrings THEN [ok |-> TRUE, cell |-> NaTCell]
    ELSE IF IsIsoTimestamp(x.val)
         THEN [ok |-> TRUE,
               cell |-> TimestampCell(IF Len(x.val) = 10 THEN x.val \o " 00:00:00"
                                      ELSE SubSeq(x.val, 1, 10) \o " "
                                               \o SubSeq(x.val, 12, 19))]
    ELSE [ok |-> FALSE, cell |-> x]

\* the column of a conversion applied to every value: the per-value outcomes
\* are gathered, and the conversion raises when one value does
GatherColumn(outcomes, values, error) ==
    IF \A i \in 1..Len(outcomes) : outcomes[i].ok
    THEN [status |-> "ok", values |-> [i \in 1..Len(outcomes) |-> outcomes[i].cell]]
    ELSE [status |-> error, values |-> values]

\* pd.to_datetime(df[col])
ToDatetime(values) ==
    GatherColumn([i \in 1..Len(values) |-> ToDatetimeCell(values[i])], values, "ValueError")

\* the column as a pandas string column, astype("string"): a string stays,
\* a missing value is pandas.NA
AsStringCell(x) == IF x.kind = "str" THEN x ELSE NACell

\* str(x) of a value of a string column: pandas.NA prints as <NA>
StrOf(x) == IF x.kind = "NA" THEN "<NA>" ELSE x.val

\* the underscores Decimal allows between digits
RemoveUnderscores(s) == Replace(s, "_", "")

\* digits, with at most one "." among them and at least one digit
IsDecimalDigits(s) ==
    LET dot == Find(s, ".")
        int == IF dot = 0 THEN s ELSE SubSeq(s, 1, dot - 1)
        frac == IF dot = 0 THEN "" ELSE SubSeq(s, dot + 1, Len(s))
    IN  /\ Len(int) + Len(frac) > 0
        /\ \A i \in 1..Len(int) : IsDigit(Char(int, i))
        /\ \A i \in 1..Len(frac) : IsDigit(Char(frac, i))

\* an exponent: an optional sign and digits
IsExponent(s) ==
    LET body == IF Len(s) > 0 /\ Char(s, 1) \in {"+", "-"} THEN SubSeq(s, 2, Len(s)) ELSE s
    IN  AllDigits(body)

\* the strings decimal.Decimal accepts: blanks around, an optional sign, then
\* digits with an optional point and exponent, or Infinity, or a NaN with an
\* optional payload; letters in any case, underscores ignored
IsDecimalLiteral(s) ==
    LET t == Lower(RemoveUnderscores(Strip(s)))
        signed == Len(t) > 0 /\ Char(t, 1) \in {"+", "-"}
        body == IF signed THEN SubSeq(t, 2, Len(t)) ELSE t
        e == Find(body, "e")
    IN  \/ body \in {"inf", "infinity"}
        \/ /\ StartsWith(body, "nan") \/ StartsWith(body, "snan")
           /\ LET payload == IF StartsWith(body, "nan") THEN SubSeq(body, 4, Len(body))
                             ELSE SubSeq(body, 5, Len(body))
              IN  \A i \in 1..Len(payload) : IsDigit(Char(payload, i))
        \/ /\ e = 0
           /\ IsDecimalDigits(body)
        \/ /\ e > 0
           /\ IsDecimalDigits(SubSeq(body, 1, e - 1))
           /\ IsExponent(SubSeq(body, e + 1, Len(body)))

\* a mutant of SwallowedForms: the spelling is taken in any case
SwallowedFormsAnyCase(s) == Lower(s) \in {"", "none", " ", "<na>"}

\* str(x) in ("", "none", " ", "<NA>")
SwallowedForms(s) == s \in {"", "none", " ", "<NA>"}

\* Decimal(str(x)) if str(x) not in ("", "none", " ", "<NA>") else None
ToDecimalCell(x) ==
    LET s == StrOf(x)
    IN  IF SwallowedForms(s) THEN [ok |-> TRUE, cell |-> NoneCell]
        ELSE IF IsDecimalLiteral(s) THEN [ok |-> TRUE, cell |-> DecimalCell(Strip(s))]
        ELSE [ok |-> FALSE, cell |-> x]

\* df[col].astype("string").apply(lambda x: ...)
ToDecimal(values) ==
    GatherColumn([i \in 1..Len(values) |-> ToDecimalCell(AsStringCell(values[i]))],
                 values, "InvalidOperation")

\* .dt.date of one value, then the replacement of NaT by None
ToDateCell(x) ==
    LET t == ToDatetimeCell(x)
    IN  IF ~t.ok THEN t
        ELSE IF t.cell.kind = "NaT" THEN [ok |-> TRUE, cell |-> NoneCell]
        ELSE [ok |-> TRUE, cell |-> DateCell(SubSeq(t.cell.val, 1, 10))]

\* pd.to_datetime(df[col]).dt.date.replace(to_replace={pd.NaT: None})
ToDate(values) ==
    GatherColumn([i \in 1..Len(values) |-> ToDateCell(values[i])], values, "ValueError")

\* .str.encode(encoding="utf-8") of one value of the string column, then the
\* replacement of pandas.NA by None
ToBytesCell(x) ==
    IF x.kind = "NA" THEN [ok |-> TRUE, cell |-> NoneCell]
    ELSE [ok |-> TRUE, cell |-> BytesCell(x.val)]

\* df[col].astype("string").str.encode(encoding="utf-8").replace(...)
ToBytes(values) ==
    GatherColumn([i \in 1..Len(values) |-> ToBytesCell(AsStringCell(values[i]))],
                 values, "ValueError")

\* one value of astype(pandas_type) for a numeric or boolean type: a missing
\* value stays missing, a string must spell a value of the type
AsTypeCell(pandas_type, x) ==
    IF x.kind # "str" THEN [ok |-> TRUE, cell |-> NACell]
    ELSE IF pandas_type \in {"Int8", "Int16", "Int32", "Int64"}
         THEN [ok |-> ParseInt(x.val).ok, cell |-> [kind |-> pandas_type, val |-> Strip(x.val)]]
    ELSE IF pandas_type \in {"float32", "float64"}
         THEN [ok |-> IsDecimalLiteral(x.val) /\ Find(x.val, "_") = 0,
               cell |-> [kind |-> pandas_type, val |-> Strip(x.val)]]
    ELSE [ok |-> x.val \in {"True", "False"}, cell |-> [kind |-> pandas_type, val |-> x.val]]

\* df[col].astype(pandas_type): "string" keeps the strings, "list" is no
\* dtype and raises TypeError
AsType(values, pandas_type) ==
    IF pandas_type = "string"
    THEN [status |-> "ok", values |-> [i \in 1..Len(values) |-> AsStringCell(values[i])]]
    ELSE IF pandas_type = "list"
    THEN [status |-> "TypeError", values |-> values]
    ELSE GatherColumn([i \in 1..Len(values) |-> AsTypeCell(pandas_type, values[i])],
                      values, "ValueError")

\* the conversion of one column, chosen by pandas_type
ConvertColumn(pandas_type, values) ==
    IF pandas_type = "datetime64" THEN ToDatetime(values)
    ELSE IF pandas_type = "date" THEN ToDate(values)
    ELSE IF pandas_type = "bytes" THEN ToBytes(values)
    ELSE IF pandas_type = "decimal" THEN ToDecimal(values)
    ELSE AsType(values, pandas_type)

RECURSIVE CastLoop(_, _, _)
\* the for loop from the i-th item of cast_columns on; df is the caller's
\* table, changed in place, and comes back as it stands when the loop
\* returns or raises
CastLoop(df, cast_columns, i) ==
    IF i > Len(cast_columns) THEN [status |-> "ok", df |-> df]
    ELSE LET col == cast_columns[i].k
             athena_type == cast_columns[i].v
         IN  IF ~HasColumn(df, col) THEN CastLoop(df, cast_columns, i + 1)
             ELSE LET pandas_type == athena2pandas(athena_type)
                  IN  IF pandas_type.status # "ok"
                      THEN [status |-> pandas_type.status, df |-> df]
                      ELSE LET c == ConvertColumn(pandas_type.str, ColumnValues(df, col))
                           IN  IF c.status # "ok" THEN [status |-> c.status, df |-> df]
                               ELSE CastLoop(SetColumn(df, col, c.values),
                                             cast_columns, i + 1)

cast_pandas_with_athena_types(df, cast_columns) == CastLoop(df, cast_columns, 1)

(***************************************************************************)
(* The catalog vocabulary, and the inputs the calls are given.             *)
(***************************************************************************)
\* the tag decimal(p,s) as a caller spells it
DecimalTagOf(p, s) == "decimal(" \o IntToStr(p) \o "," \o IntToStr(s) \o ")"

DecimalTags ==
    {DecimalTagOf(ps[1], ps[2]) :
        ps \in {<<p, s>> \in (1..MaxPrecision) \X (0..MaxPrecision) : s <= p}}

\* the tags of the vocabulary that carry no parameter and are not composite
ScalarTags == {"tinyint", "smallint", "int", "integer", "bigint", "float", "double",
               "boolean", "string", "char", "varchar", "timestamp", "date",
               "binary", "varbinary"}

CompositeTags == {"array", "row", "map"}

VocabularyTags == ScalarTags \cup CompositeTags \cup DecimalTags

\* strings that are no tag of the vocabulary
OtherStrings == {"", " ", "b", "y", "bin", "inar", "nary", "binar", "binaryy", "varbinaryx",
                 "decimal", "decimalx", "decimal(3)", "decimal(1,2,3)", "decimal(a,b)",
                 "decimal(2,1))", "decimal(decimal(2,1)", "decimal( 2, 1 )", "xdecimal(2,1)",
                 "timestamp with time zone", "struct<a:int>", "array<int>", "uint8",
                 "text", "foo", " int", "int "}

\* every vocabulary tag in lower case, in upper case and capitalised
TagInputs == VocabularyTags
             \cup {Upper(t) : t \in VocabularyTags}
             \cup {Capitalize(t) : t \in VocabularyTags}
             \cup OtherStrings
             \cup {Upper(t) : t \in OtherStrings}

BaseTypes == {PaInt8, PaInt16, PaInt32, PaInt64, PaFloat32, PaFloat64, PaBool, PaString,
              PaTimestamp("ns"), PaTimestamp("us"), PaDate32, PaDate64, PaBinary,
              PaNull, PaUInt8}
             \cup {PaDecimal128(p, s) : <<p, s>> \in
                      {<<q, t>> \in (1..MaxPrecision) \X (0..MaxPrecision) : t <= q}}

\* the field types of the two-field structs
FieldTypes == {PaInt64, PaString, PaNull, PaUInt8, PaList(PaInt64)}

TwoFieldStructs ==
    {PaStruct(<<PaField(n[1], t1), PaField(n[2], t2)>>) :
        n \in {<<"a", "b">>, <<"b", "a">>}, t1 \in FieldTypes, t2 \in FieldTypes}

RECURSIVE TypesOfDepth(_)
TypesOfDepth(d) ==
    IF d = 0 THEN BaseTypes
    ELSE LET inner == TypesOfDepth(d - 1)
         IN  inner \cup {PaList(t) : t \in inner}
                   \cup {PaDictionary(t) : t \in inner}
                   \cup {PaStruct(<<PaField("a", t)>>) : t \in inner}
                   \cup TwoFieldStructs

TypeInputs == TypesOfDepth(MaxDepth)

\* the names of the declared columns, by position
ColNames == <<"id", "name", "date", "value">>

\* what a column can be: its pandas dtype and the columnar type inferred for it
Int64Kind == [dtype |-> "int64", inferred |-> PaInt64]

StringKind == [dtype |-> "string", inferred |-> PaString]

\* an object column holding nothing but None
AllNullKind == [dtype |-> "object", inferred |-> PaNull]

UInt8Kind == [dtype |-> "uint8", inferred |-> PaUInt8]

ColumnKinds == {Int64Kind, StringKind, AllNullKind, UInt8Kind}

OtherKinds == {[dtype |-> "Int8", inferred |-> PaInt8],
               [dtype |-> "Int16", inferred |-> PaInt16],
               [dtype |-> "Int32", inferred |-> PaInt32],
               [dtype |-> "Int64", inferred |-> PaInt64],
               [dtype |-> "float64", inferred |-> PaFloat64],
               [dtype |-> "bool", inferred |-> PaBool],
               [dtype |-> "datetime64[ns]", inferred |-> PaTimestamp("ns")],
               [dtype |-> "category", inferred |-> PaDictionary(PaString)],
               [dtype |-> "object", inferred |-> PaString],
               [dtype |-> "object", inferred |-> PaList(PaInt64)],
               [dtype |-> "object", inferred |-> PaList(PaNull)]}

TableOfKinds(kinds) ==
    [i \in 1..Len(kinds) |-> Column(ColNames[i], kinds[i].dtype, kinds[i].inferred)]

TableInputs ==
    UNION {{TableOfKinds(kinds) : kinds \in [1..n -> ColumnKinds]} : n \in 0..MaxCols}
    \cup {TableOfKinds(<<Int64Kind, kind>>) : kind \in OtherKinds}

Entry(key, val) == [k |-> key, v |-> val]

CastValues == {"string", "BIGINT"}

CastInputs ==
    {None, Some(<<>>),
     Some(<<Entry("__index_level_0__", "string")>>),
     Some(<<Entry("id", "foo")>>),
     Some(<<Entry("name", "Decimal(2,1)"), Entry("id", "INT")>>)}
    \cup {Some(<<Entry("id", v)>>) : v \in CastValues}
    \cup {Some(<<Entry("date", v)>>) : v \in CastValues}
    \cup {Some(<<Entry("id", v), Entry("date", w)>>) : v \in CastValues, w \in CastValues}

PartitionInputs ==
    {None, Some(<<>>), Some(<<"name">>), Some(<<"date">>), Some(<<"name", "date">>),
     Some(<<"date", "name">>), Some(<<"year", "id">>)}

(***************************************************************************)
(* A partitioned dataset in storage: dirs is the list of its partition     *)
(* directories in the order the listing finds them, each one the tuple of  *)
(* its key values.  pyarrow reports one partition set per key, holding the *)
(* key's distinct values in the order they were first met.                 *)
(***************************************************************************)
\* number of partition directories of a dataset
MaxDirs == 3

PartitionNames == <<"year", "month">>

PartitionValues == <<{"2019", "2020"}, {"1", "2"}>>

\* the directories a dataset of the given number of keys can hold
DirsOfDepth(depth) ==
    IF depth = 1 THEN {<<y>> : y \in PartitionValues[1]}
    ELSE {<<y, m>> : y \in PartitionValues[1], m \in PartitionValues[2]}

\* the listings of at most MaxDirs distinct directories
DirInputs ==
    UNION {{d \in [1..n -> DirsOfDepth(depth)] :
               \A i, j \in 1..n : i # j => d[i] # d[j]} :
           n \in 0..MaxDirs, depth \in 1..Len(PartitionNames)}

RECURSIVE DistinctValues(_, _, _, _)
\* the values of key j among the directories from the i-th on, each kept
\* where it is first met
DistinctValues(dirs, j, i, keys) ==
    IF i > Len(dirs) THEN keys
    ELSE DistinctValues(dirs, j, i + 1,
                        IF InList(dirs[i][j], keys) THEN keys
                        ELSE Append(keys, dirs[i][j]))

\* the partitions argument read from a dataset: none for an empty dataset
PartitionsOfDirs(dirs) ==
    IF Len(dirs) = 0 THEN <<>>
    ELSE [j \in 1..Len(dirs[1]) |->
             PartitionSet(PartitionNames[j], DistinctValues(dirs, j, 1, <<>>))]

\* the dataset's location, with and without the trailing separator
PathInputs == {"s3://bucket/prefix", "s3://bucket/prefix/", "s3://bucket", "s3://bucket/"}

(***************************************************************************)
(* The tables and overrides given to the caster.  A table has the column   *)
(* amt, the column d, or both; every column has the same number of rows.   *)
(* Each column is given the overrides its values are meant for, and the    *)
(* column zz, named by some overrides, is in no table.                     *)
(***************************************************************************)
\* number of rows of a table given to the caster
MaxRows == 1

AmountCells ==
    {StrCell(s) : s \in {"1.50", "", "none", " ", "<NA>", "None", "null"}} \cup {NACell}

DateCells ==
    {StrCell(s) : s \in {"2020-01-02 10:30:00", "", "not a date"}} \cup {NACell}

ValueTableInputs ==
    UNION {{<<ValuesColumn("amt", a)>> : a \in [1..n -> AmountCells]}
           \cup {<<ValuesColumn("d", d)>> : d \in [1..n -> DateCells]}
           \cup {<<ValuesColumn("amt", a), ValuesColumn("d", d)>> :
                    a \in [1..n -> AmountCells], d \in [1..n -> DateCells]} :
           n \in 1..MaxRows}

OverrideInputs ==
    {Entry("amt", t) : t \in {"decimal(10,2)", "string", "binary", "array", "foo"}}
    \cup {Entry("d", t) : t \in {"date", "timestamp", "foo"}}
    \cup {Entry("zz", t) : t \in {"date", "foo"}}

\* cast_columns: at most two overrides, of different columns, in either order
CastColumnsInputs ==
    {<<>>} \cup {<<e>> : e \in OverrideInputs}
    \cup {ef \in OverrideInputs \X OverrideInputs : ef[1].k # ef[2].k}

(***************************************************************************)
(* The helpers of awswrangler/_utils.py, modelled by their contract:       *)
(* parse_path cuts a path into bucket and key, get_cpu_count is 1 when     *)
(* parallelism is disabled and the number of CPUs otherwise, chunkify cuts *)
(* a list into consecutive batches of at most max_length items, and        *)
(* parallelize hands each worker one consecutive share of the list, waits  *)
(* for all of them and takes their results in the order of the shares.     *)
(***************************************************************************)
\* the machine has 1..MaxCpus CPUs
MaxCpus == 3

\* str.split(sep, 1): at most one cut
SplitOnce(s, sep) ==
    LET i == Find(s, sep)
    IN  IF i = 0 THEN <<s>>
        ELSE <<SubSeq(s, 1, i - 1), SubSeq(s, i + Len(sep), Len(s))>>

\* _utils.parse_path: bucket and key of s3://bucket/key
parse_path(p) ==
    LET parts == SplitOnce(Replace(p, "s3://", ""), "/")
    IN  [bucket |-> parts[1], key |-> IF Len(parts) = 2 THEN parts[2] ELSE ""]

\* _utils.get_cpu_count
get_cpu_count(par, cpu_count) == IF par THEN cpu_count ELSE 1

RECURSIVE chunkify(_, _)
\* _utils.chunkify(lst, max_length): consecutive batches of max_length items,
\* the last one shorter; no batch for an empty list
chunkify(lst, max_length) ==
    IF Len(lst) = 0 THEN <<>>
    ELSE IF Len(lst) <= max_length THEN <<lst>>
    ELSE <<SubSeq(lst, 1, max_length)>>
             \o chunkify(SubSeq(lst, max_length + 1, Len(lst)), max_length)

\* the consecutive shares of lst that _utils.parallelize hands to n workers:
\* the first Len(lst) % n shares hold one item more
SharesOf(lst, n) ==
    LET q == Len(lst) \div n
        r == Len(lst) % n
        First(w) == (w - 1) * q + (IF w - 1 < r THEN w - 1 ELSE r) + 1
    IN  [w \in 1..n |-> SubSeq(lst, First(w), First(w + 1) - 1)]

(***************************************************************************)
(* read_csv_list and read_parquet_list (awswrangler/s3.py).  Every object  *)
(* of the store is a file of one row, the row named after its path, and is *)
(* stored in the compression its extension tells.  A table is the list of  *)
(* its rows.  pd_kwargs is the caller's compression keyword, "infer" when  *)
(* it is not given.                                                        *)
(***************************************************************************)
\* pandas.io.common.infer_compression(path, "infer"): by the extension
infer_compression(p) ==
    LET Ends(ext) == Len(p) >= Len(ext) /\ SubSeq(p, Len(p) - Len(ext) + 1, Len(p)) = ext
    IN  IF Ends(".gz") THEN "gzip"
        ELSE IF Ends(".bz2") THEN "bz2"
        ELSE IF Ends(".zip") THEN "zip"
        ELSE IF Ends(".xz") THEN "xz"
        ELSE "None"

\* a mutant of CompressionFor: the compression is inferred for every file
CompressionInferred(compression, p) == infer_compression(p)

\* the compression _read_csv reads a file with: inferred while the keyword
\* still says "infer"
CompressionFor(compression, p) ==
    IF compression = "infer" THEN infer_compression(p) ELSE compression

RECURSIVE ReadCsvLoop(_, _, _, _)
\* the for loop of _read_csv from the i-th path on: the inferred compression
\* is stored in pd_kwargs, and pd.read_csv decodes the file with it; a file
\* stored otherwise does not decode
ReadCsvLoop(ps, i, compression, dfs) ==
    IF i > Len(ps) THEN [status |-> "ok", dfs |-> dfs]
    ELSE LET used == CompressionFor(compression, ps[i])
         IN  IF used # infer_compression(ps[i])
             THEN [status |-> "DecodeError", dfs |-> dfs]
             ELSE ReadCsvLoop(ps, i + 1, used, Append(dfs, <<ps[i]>>))

\* file_reader(paths=ps, **pd_kwargs): _read_csv or _read_parquet, the latter
\* reading every file as it is
FileReader(reader, ps, compression) ==
    IF reader = "csv" THEN ReadCsvLoop(ps, 1, compression, <<>>)
    ELSE [status |-> "ok", dfs |-> [i \in 1..Len(ps) |-> <<ps[i]>>]]

RECURSIVE ReadShares(_, _, _, _, _)
\* _utils.parallelize(func=file_reader_remote, lst=paths, has_return=True):
\* each worker reads its share, and the lists the workers send back are
\* taken in the order of the shares
ReadShares(reader, shares, w, compression, dfs_list) ==
    IF w > Len(shares) THEN [status |-> "ok", dfs |-> dfs_list]
    ELSE LET r == FileReader(reader, shares[w], compression)
         IN  IF r.status # "ok" THEN [status |-> r.status, dfs |-> dfs_list]
             ELSE ReadShares(reader, shares, w + 1, compression, dfs_list \o r.dfs)

\* pd.concat(objs=dfs, ignore_index=True): the rows of the tables in their
\* order; no table to concatenate raises ValueError
pd_concat(r) ==
    IF r.status # "ok" THEN [status |-> r.status, kind |-> "none", df |-> <<>>]
    ELSE IF Len(r.dfs) = 0 THEN [status |-> "ValueError", kind |-> "none", df |-> <<>>]
    ELSE [status |-> "ok", kind |-> "table",
          df |-> [i \in 1..Len(r.dfs) |-> r.dfs[i][1]]]

\* _read_list_iterator, taken to its end: one call of the reader per path;
\* the tables yielded until a file fails
read_list_iterator(reader, ps, compression) ==
    LET Ok(i) == FileReader(reader, <<ps[i]>>, compression).status = "ok"
        good == {n \in 0..Len(ps) : \A i \in 1..n : Ok(i)}
        n == CHOOSE m \in good : \A k \in good : k <= m
    IN  [status |-> IF n = Len(ps) THEN "ok" ELSE "DecodeError",
         kind |-> "iterator",
         df |-> [i \in 1..n |-> <<ps[i]>>]]

read_list_factory(reader, ps, par, chk, cpu_count, compression) ==
    IF ~par /\ chk THEN read_list_iterator(reader, ps, compression)
    ELSE IF ~par THEN pd_concat(FileReader(reader, ps, compression))
    ELSE pd_concat(ReadShares(reader, SharesOf(ps, get_cpu_count(TRUE, cpu_count)),
                              1, compression, <<>>))

ReadPathsInputs ==
    {<<>>, <<"s3://bucket/a.csv">>, <<"s3://bucket/a.csv", "s3://bucket/b.csv">>,
     <<"s3://bucket/b.csv", "s3://bucket/a.csv">>,
     <<"s3://bucket/a.csv", "s3://bucket/b.csv.gz">>,
     <<"s3://bucket/b.csv.gz", "s3://bucket/a.csv">>,
     <<"s3://bucket/c.csv.gz", "s3://bucket/b.csv.gz", "s3://bucket/a.csv.gz">>,
     <<"s3://bucket/a.csv", "s3://bucket/b.csv", "s3://bucket/c.csv.gz">>}

(***************************************************************************)
(* The state: one call of the module at a time.  pc is "ready" before the  *)
(* call and "returned" after it; op names the function called, dtype,      *)
(* patype, df, index, cast_columns and partition_cols are its arguments,   *)
(* ret its outcome.                                                        *)
(***************************************************************************)
VARIABLES pc, op, dtype, patype, df, index, cast_columns, partition_cols, ret,
          path, partitions, dirs,
          polling_sleep, timeout, time_acc, exists, response, checks, sleeps,
          paths, parallel, cpus, buckets, bucket_i, work, requests,
          reader, chunked, pd_kwargs,
          file_writer, filename, num_files, mode, compression,
          objects, before, todo, uploaded

\* the arguments of the type mapper, the schema inferrer and the caster
typeVars == <<dtype, patype, df, index, cast_columns, partition_cols>>

\* the arguments of athena_partitions_from_pyarrow_partitions and the dataset
\* they were read from
partitionVars == <<path, partitions, dirs>>

\* the arguments and the local of wait_object_exists, the object in the
\* store, the last answer of head_object and the checks and sleeps made
waitVars == <<polling_sleep, timeout, time_acc, exists, response, checks, sleeps>>

\* the arguments and locals of delete_objects_list: the bucket the loop is
\* at, the batches each process has still to send, and the requests sent
deleteVars == <<paths, parallel, cpus, buckets, bucket_i, work, requests>>

\* the arguments of read_csv_list and read_parquet_list that are theirs
\* alone: the file reader, chunked, and the compression keyword
readVars == <<reader, chunked, pd_kwargs>>

\* the arguments of to_csv and to_parquet that are theirs alone, the objects
\* of the store now and before the call, the files the call has still to
\* write and the paths it has uploaded
writeVars == <<file_writer, filename, num_files, mode, compression,
               objects, before, todo, uploaded>>

\* the state of the object store facade (awswrangler/s3.py)
s3Vars == <<waitVars, deleteVars, readVars, writeVars>>

\* what a call of wait_object_exists leaves alone
notWaitVars == <<typeVars, partitions, dirs, deleteVars, readVars, writeVars>>

\* what a call of delete_objects_list leaves alone
notDeleteVars == <<typeVars, partitionVars, waitVars, readVars, writeVars>>

vars == <<pc, op, ret, typeVars, partitionVars, s3Vars>>

\* no call of _data_types.py made
TypesIdle ==
    /\ dtype = ""
    /\ patype = NoType
    /\ df = <<>>
    /\ index = FALSE
    /\ cast_columns = None
    /\ partition_cols = None
    /\ partitions = <<>>
    /\ dirs = <<>>

\* no call of wait_object_exists made
WaitIdle ==
    /\ polling_sleep = 0
    /\ timeout = [some |-> FALSE, val |-> 0]
    /\ time_acc = 0
    /\ exists = FALSE
    /\ response = "none"
    /\ checks = 0
    /\ sleeps = 0

\* no call of delete_objects_list or of a list reader made
DeleteIdle ==
    /\ paths = <<>>
    /\ parallel = FALSE
    /\ cpus = 1
    /\ buckets = <<>>
    /\ bucket_i = 0
    /\ work = <<>>
    /\ requests = <<>>
    /\ reader = "none"
    /\ chunked = FALSE
    /\ pd_kwargs = "infer"

\* no call of to_csv or to_parquet made
WriteIdle ==
    /\ file_writer = "none"
    /\ filename = [some |-> FALSE, val |-> ""]
    /\ num_files = 1
    /\ mode = "append"
    /\ compression = "None"
    /\ objects = {}
    /\ before = {}
    /\ todo = <<>>
    /\ uploaded = <<>>

Init ==
    /\ pc = "ready"
    /\ op = "none"
    /\ ret = [status |-> "none"]
    /\ path = ""
    /\ TypesIdle
    /\ WaitIdle
    /\ DeleteIdle
    /\ WriteIdle

CallAthena2Pyarrow(tag) ==
    /\ pc = "ready"
    /\ pc' = "returned"
    /\ op' = "athena2pyarrow"
    /\ dtype' = tag
    /\ ret' = athena2pyarrow(tag)
    /\ UNCHANGED <<patype, df, index, cast_columns, partition_cols>>
    /\ UNCHANGED partitionVars
    /\ UNCHANGED s3Vars

CallPyarrow2Athena(t) ==
    /\ pc = "ready"
    /\ pc' = "returned"
    /\ op' = "pyarrow2athena"
    /\ patype' = t
    /\ ret' = pyarrow2athena(t)
    /\ UNCHANGED <<dtype, df, index, cast_columns, partition_cols>>
    /\ UNCHANGED partitionVars
    /\ UNCHANGED s3Vars

\* the round trip: pyarrow2athena applied to what athena2pyarrow returned
CallPyarrow2AthenaOnResult ==
    /\ pc = "returned"
    /\ op = "athena2pyarrow"
    /\ ret.status = "ok"
    /\ op' = "roundtrip"
    /\ patype' = ret.type
    /\ ret' = pyarrow2athena(ret.type)
    /\ UNCHANGED <<pc, dtype, df, index, cast_columns, partition_cols>>
    /\ UNCHANGED partitionVars
    /\ UNCHANGED s3Vars

CallAthena2Pandas(tag) ==
    /\ pc = "ready"
    /\ pc' = "returned"
    /\ op' = "athena2pandas"
    /\ dtype' = tag
    /\ ret' = athena2pandas(tag)
    /\ UNCHANGED <<patype, df, index, cast_columns, partition_cols>>
    /\ UNCHANGED partitionVars
    /\ UNCHANGED s3Vars

CallAthenaTypesFromPandas(table, idx, casts) ==
    /\ pc = "ready"
    /\ pc' = "returned"
    /\ op' = "athena_types_from_pandas"
    /\ df' = table
    /\ index' = idx
    /\ cast_columns' = casts
    /\ ret' = athena_types_from_pandas(table, idx, casts)
    /\ UNCHANGED <<dtype, patype, partition_cols>>
    /\ UNCHANGED partitionVars
    /\ UNCHANGED s3Vars

CallAthenaTypesFromPandasPartitioned(table, idx, parts, casts) ==
    /\ pc = "ready"
    /\ pc' = "returned"
    /\ op' = "athena_types_from_pandas_partitioned"
    /\ df' = table
    /\ index' = idx
    /\ partition_cols' = parts
    /\ cast_columns' = casts
    /\ ret' = athena_types_from_pandas_partitioned(table, idx, parts, casts)
    /\ UNCHANGED <<dtype, patype>>
    /\ UNCHANGED partitionVars
    /\ UNCHANGED s3Vars

CallAthenaPartitionsFromPyarrowPartitions(p, d) ==
    /\ pc = "ready"
    /\ pc' = "returned"
    /\ op' = "athena_partitions_from_pyarrow_partitions"
    /\ path' = p
    /\ dirs' = d
    /\ partitions' = PartitionsOfDirs(d)
    /\ ret' = athena_partitions_from_pyarrow_partitions(p, PartitionsOfDirs(d))
    /\ UNCHANGED typeVars
    /\ UNCHANGED s3Vars

\* df names the caller's table as it was given; the table is changed in
\* place, and ret.df is the caller's table once the call has returned or raised
CallCastPandasWithAthenaTypes(table, casts) ==
    /\ pc = "ready"
    /\ pc' = "returned"
    /\ op' = "cast_pandas_with_athena_types"
    /\ df' = table
    /\ cast_columns' = casts
    /\ ret' = cast_pandas_with_athena_types(table, casts)
    /\ UNCHANGED <<dtype, patype, index, partition_cols>>
    /\ UNCHANGED partitionVars
    /\ UNCHANGED s3Vars

\* read_csv_list or read_parquet_list on a machine of cpu_count CPUs
CallReadList(rd, ps, par, chk, cpu_count, kw) ==
    /\ pc = "ready"
    /\ pc' = "returned"
    /\ op' = "read_list"
    /\ reader' = rd
    /\ paths' = ps
    /\ parallel' = par
    /\ chunked' = chk
    /\ cpus' = get_cpu_count(par, cpu_count)
    /\ pd_kwargs' = kw
    /\ ret' = read_list_factory(rd, ps, par, chk, cpu_count, kw)
    /\ UNCHANGED <<typeVars, partitionVars, waitVars, buckets, bucket_i, work, requests,
                   writeVars>>

\* A call starts only from "ready"; the guard stands before each choice of
\* arguments.
Next ==
    \/ pc = "ready" /\ \E tag \in TagInputs : CallAthena2Pyarrow(tag)
    \/ pc = "ready" /\ \E t \in TypeInputs : CallPyarrow2Athena(t)
    \/ CallPyarrow2AthenaOnResult
    \/ pc = "ready" /\ \E tag \in TagInputs : CallAthena2Pandas(tag)
    \/ pc = "ready" /\ \E table \in TableInputs, idx \in BOOLEAN, casts \in CastInputs :
           CallAthenaTypesFromPandas(table, idx, casts)
    \/ pc = "ready" /\ \E table \in TableInputs, idx \in BOOLEAN,
                          parts \in PartitionInputs, casts \in CastInputs :
           CallAthenaTypesFromPandasPartitioned(table, idx, parts, casts)
    \/ pc = "ready" /\ \E p \in PathInputs, d \in DirInputs :
           CallAthenaPartitionsFromPyarrowPartitions(p, d)
    \/ pc = "ready" /\ \E table \in ValueTableInputs, casts \in CastColumnsInputs :
           CallCastPandasWithAthenaTypes(table, casts)
    \/ pc = "ready" /\ \E rd \in {"csv", "parquet"}, ps \in ReadPathsInputs,
                          par \in BOOLEAN, chk \in BOOLEAN, cpu_count \in 1..MaxCpus,
                          kw \in {"infer", "gzip"} :
           CallReadList(rd, ps, par, chk, cpu_count, kw)

Spec == Init /\ [][Next]_vars

(***************************************************************************)
(* wait_object_exists (awswrangler/s3.py).  Time is counted in ticks:      *)
(* polling_sleep, timeout and time_acc are whole numbers of ticks.  The    *)
(* object of the path is in the store or not, and other clients put and    *)
(* delete it while the call polls.  head_object answers 200 for a present  *)
(* object and 404 for a missing one, or fails with another status.         *)
(***************************************************************************)
\* polling_sleep is 0..MaxSleep ticks
MaxSleep == 2
\* timeout is None or 0..MaxTimeout ticks
MaxTimeout == 3
\* checks and sleeps are counted up to MaxChecks and stay there
MaxChecks == 4

\* path.replace("s3://", "").split("/", 1)
BucketAndKey(p) == SplitOnce(Replace(p, "s3://", ""), "/")

\* the answers head_object gives for the object: 200 or 404 by its presence,
\* or a failure of another status
HeadObjectResponses(present) == {IF present THEN "200" ELSE "404", "403", "500"}

\* a mutant of TimedOut: the deadline counts as reached at once
TimedOutAtOnce(acc, limit) == TRUE

\* time_acc >= timeout
TimedOut(acc, limit) == acc >= limit

\* a counter that stops at MaxChecks
CountUp(n) == IF n < MaxChecks THEN n + 1 ELSE n

ObjectPathInputs == {"s3://bucket/key", "s3://bucket/dir/key", "s3://bucket"}

SleepInputs == 0..MaxSleep

\* timeout: None, or a number of ticks
NoTimeout == [some |-> FALSE, val |-> 0]

TimeoutOf(t) == [some |-> TRUE, val |-> t]

TimeoutInputs == {NoTimeout} \cup {TimeoutOf(t) : t \in 0..MaxTimeout}

\* the object is in the store or not when the call is made
InitWait ==
    /\ pc = "ready"
    /\ op = "none"
    /\ ret = [status |-> "none"]
    /\ path = ""
    /\ TypesIdle
    /\ DeleteIdle
    /\ WriteIdle
    /\ polling_sleep = 0
    /\ timeout = [some |-> FALSE, val |-> 0]
    /\ time_acc = 0
    /\ exists \in BOOLEAN
    /\ response = "none"
    /\ checks = 0
    /\ sleeps = 0

\* the call is made: time_acc = 0.0
CallWaitObjectExists(p, ps, t) ==
    /\ pc = "ready"
    /\ pc' = "check"
    /\ op' = "wait_object_exists"
    /\ path' = p
    /\ polling_sleep' = ps
    /\ timeout' = t
    /\ time_acc' = 0
    /\ UNCHANGED <<ret, exists, response, checks, sleeps, notWaitVars>>

\* the loop condition, does_object_exists(path): the path is cut into bucket
\* and key (a path with no key fails to unpack), head_object is called, 200
\* ends the loop and the call, 404 enters the loop body, any other answer is
\* raised again and leaves the call
DoesObjectExists ==
    /\ pc = "check"
    /\ checks' = CountUp(checks)
    /\ IF Len(BucketAndKey(path)) # 2
       THEN /\ pc' = "raised"
            /\ ret' = [status |-> "ValueError"]
            /\ UNCHANGED response
       ELSE \E r \in HeadObjectResponses(exists) :
                /\ response' = r
                /\ IF r = "200" THEN pc' = "returned" /\ ret' = [status |-> "ok"]
                   ELSE IF r = "404" THEN pc' = "sleep" /\ UNCHANGED ret
                   ELSE pc' = "raised" /\ ret' = [status |-> "ClientError"]
    /\ UNCHANGED <<op, path, polling_sleep, timeout, time_acc, exists, sleeps,
                   notWaitVars>>

\* the loop body: sleep, then the deadline test when a timeout is given
SleepAndAccumulate ==
    /\ pc = "sleep"
    /\ sleeps' = CountUp(sleeps)
    /\ IF timeout.some
       THEN /\ time_acc' = time_acc + polling_sleep
            /\ IF TimedOut(time_acc + polling_sleep, timeout.val)
               THEN pc' = "raised" /\ ret' = [status |-> "S3WaitObjectTimeout"]
               ELSE pc' = "check" /\ UNCHANGED ret
       ELSE /\ pc' = "check"
            /\ UNCHANGED <<time_acc, ret>>
    /\ UNCHANGED <<op, path, polling_sleep, timeout, exists, response, checks,
                   notWaitVars>>

\* another client puts or deletes the object while the call polls
ObjectPutOrDeleted ==
    /\ pc \in {"check", "sleep"}
    /\ exists' = ~exists
    /\ UNCHANGED <<pc, op, ret, path, polling_sleep, timeout, time_acc, response,
                   checks, sleeps, notWaitVars>>

NextWait ==
    \/ pc = "ready" /\ \E p \in ObjectPathInputs, ps \in SleepInputs, t \in TimeoutInputs :
           CallWaitObjectExists(p, ps, t)
    \/ DoesObjectExists
    \/ SleepAndAccumulate
    \/ ObjectPutOrDeleted

\* the call runs on: a check or a sleep that can be made is made
SpecWait ==
    /\ InitWait
    /\ [][NextWait]_vars
    /\ WF_vars(DoesObjectExists)
    /\ WF_vars(SleepAndAccumulate)

(***************************************************************************)
(* delete_objects_list (awswrangler/s3.py).  requests holds, for each      *)
(* process, the list of the delete_objects requests the store has received *)
(* from it.                                                                *)
(***************************************************************************)
\* max_length of a delete batch
DeleteMaxLength == 1000
\* the longest listing holds MaxBatches full batches and one key more
MaxBatches == 2
\* a mutant of BucketOfPath: every key is filed under the bucket of the
\* first path
BucketOfFirstPath(ps, i) == parse_path(ps[1]).bucket

\* the bucket the i-th path is filed under
BucketOfPath(ps, i) == parse_path(ps[i]).bucket

\* _split_paths_by_bucket: the loop files each key under its bucket, a bucket
\* entering the dict when its first path is met, so that the dict lists the
\* buckets by first appearance and each bucket's keys in path order
split_paths_by_bucket(ps) ==
    LET filed == [i \in 1..Len(ps) |->
                     [bucket |-> BucketOfPath(ps, i), key |-> parse_path(ps[i]).key]]
        names == {filed[i].bucket : i \in 1..Len(ps)}
        FirstOf(b) == CHOOSE i \in 1..Len(ps) :
                          /\ filed[i].bucket = b
                          /\ \A j \in 1..(i - 1) : filed[j].bucket # b
        KeysOf(b) == LET In(e) == e.bucket = b
                         kept == SelectSeq(filed, In)
                     IN  [i \in 1..Len(kept) |-> kept[i].key]
    IN  [n \in 1..Cardinality(names) |->
            LET b == CHOOSE c \in names :
                         Cardinality({d \in names : FirstOf(d) < FirstOf(c)}) = n - 1
            IN  [k |-> b, v |-> KeysOf(b)]]

\* the batches each process has to send for one bucket: the calling process
\* alone when cpus = 1, one worker per share otherwise
WorkOf(keys, n) ==
    IF n = 1 THEN <<chunkify(keys, DeleteMaxLength)>>
    ELSE [w \in 1..n |-> chunkify(SharesOf(keys, n)[w], DeleteMaxLength)]

\* the paths s3://bucket-?/key1 .. keyN, in one bucket or alternating
\* between two
ListedPaths(n, nbuckets) ==
    [i \in 1..n |-> "s3://bucket-" \o (IF i % nbuckets = 0 THEN "a" ELSE "b")
                        \o "/key" \o NatToStr(i)]

KeyCounts ==
    {0, 1, 3, DeleteMaxLength, DeleteMaxLength + 1, MaxBatches * DeleteMaxLength + 1}

DeletePathsInputs == {ListedPaths(n, nb) : n \in KeyCounts, nb \in 1..2}

InitDelete ==
    /\ pc = "ready"
    /\ op = "none"
    /\ ret = [status |-> "none"]
    /\ path = ""
    /\ TypesIdle
    /\ WaitIdle
    /\ DeleteIdle
    /\ WriteIdle

\* the call is made on a machine of cpu_count CPUs: an empty list returns at
\* once; otherwise the paths are split by bucket and the loop starts at the
\* first bucket
CallDeleteObjectsList(ps, par, cpu_count) ==
    /\ pc = "ready"
    /\ op' = "delete_objects_list"
    /\ paths' = ps
    /\ parallel' = par
    /\ IF Len(ps) < 1
       THEN /\ pc' = "returned"
            /\ ret' = [status |-> "ok"]
            /\ UNCHANGED <<cpus, buckets, bucket_i, work>>
       ELSE /\ pc' = "deleting"
            /\ cpus' = get_cpu_count(par, cpu_count)
            /\ buckets' = split_paths_by_bucket(ps)
            /\ bucket_i' = 1
            /\ work' = WorkOf(split_paths_by_bucket(ps)[1].v, get_cpu_count(par, cpu_count))
            /\ UNCHANGED ret
    /\ requests' = [w \in 1..MaxCpus |-> <<>>]
    /\ UNCHANGED notDeleteVars

\* _delete_objects in process w: s3_client.delete_objects for its next batch
DeleteObjects(w) ==
    /\ pc = "deleting"
    /\ Len(work[w]) > 0
    /\ requests' = [requests EXCEPT ![w] = Append(@, [Bucket |-> buckets[bucket_i].k,
                                                    Objects |-> Head(work[w])])]
    /\ work' = [work EXCEPT ![w] = Tail(@)]
    /\ UNCHANGED <<pc, op, ret, paths, parallel, cpus, buckets, bucket_i, notDeleteVars>>

\* every process is done with the bucket: the loop goes to the next bucket,
\* or the call returns
NextBucket ==
    /\ pc = "deleting"
    /\ \A w \in 1..Len(work) : Len(work[w]) = 0
    /\ IF bucket_i < Len(buckets)
       THEN /\ bucket_i' = bucket_i + 1
            /\ work' = WorkOf(buckets[bucket_i + 1].v, cpus)
            /\ UNCHANGED <<pc, ret>>
       ELSE /\ pc' = "returned"
            /\ ret' = [status |-> "ok"]
            /\ UNCHANGED <<bucket_i, work>>
    /\ UNCHANGED <<op, paths, parallel, cpus, buckets, requests, notDeleteVars>>

NextDelete ==
    \/ pc = "ready" /\ \E ps \in DeletePathsInputs, par \in BOOLEAN, cpu_count \in 1..MaxCpus :
           CallDeleteObjectsList(ps, par, cpu_count)
    \/ \E w \in 1..MaxCpus : w <= Len(work) /\ DeleteObjects(w)
    \/ NextBucket

SpecDelete == InitDelete /\ [][NextDelete]_vars

(***************************************************************************)
(* to_csv and to_parquet (awswrangler/s3.py).  A table is the list of its  *)
(* rows, a row giving a value, or no value, for each of the columns "a"    *)
(* and "b".  objects is the set of the paths of the objects of the store;  *)
(* only this call changes it.  uuid4().hex is any name no object has yet.  *)
(***************************************************************************)
\* the rows of a written table
MaxWriteRows == 2

\* num_files is at most MaxFiles
MaxFiles == 2

\* a missing value of a column (None, NaN)
NoValue == [some |-> FALSE, val |-> 0]

ValueOf(v) == [some |-> TRUE, val |-> v]

\* filename=None, and a filename given
NoFilename == [some |-> FALSE, val |-> ""]

FilenameOf(s) == [some |-> TRUE, val |-> s]

\* the names uuid4().hex may give
Uuids == {"0a", "1b", "2c"}

\* list_objects: the objects of the bucket of p whose key starts with the
\* key of p
list_objects(objs, p) ==
    {o \in objs : /\ parse_path(o).bucket = parse_path(p).bucket
                  /\ StartsWith(parse_path(o).key, parse_path(p).key)}

\* a mutant of delete_objects_prefix: every object of the bucket is deleted
delete_objects_bucket(objs, p) ==
    {o \in objs : parse_path(o).bucket # parse_path(p).bucket}

\* delete_objects_prefix: every listed object is deleted
delete_objects_prefix(objs, p) == objs \ list_objects(objs, p)

\* the values of a row in the columns cols
KeysOfRow(row, cols) == [i \in 1..Len(cols) |-> row[cols[i]]]

\* the keys of df.groupby(by=cols, observed=True): the distinct tuples of
\* values of the rows; a row with a missing value in a key column belongs to
\* no group
GroupKeys(rows, cols) ==
    {[i \in 1..Len(cols) |-> KeysOfRow(rows[r], cols)[i].val] :
        r \in {q \in 1..Len(rows) : \A i \in 1..Len(cols) : KeysOfRow(rows[q], cols)[i].some}}

\* the order of the keys of groupby: tuples of equal length, by their first
\* difference
KeysLess(s, t) ==
    \E i \in 1..Len(s) : /\ s[i] < t[i]
                         /\ \A j \in 1..(i - 1) : s[j] = t[j]

RECURSIVE SortedKeys(_)
\* groupby yields its groups in the sorted order of their keys
SortedKeys(keyset) ==
    IF keyset = {} THEN <<>>
    ELSE LET least == CHOOSE k \in keyset : \A o \in keyset \ {k} : KeysLess(k, o)
         IN  <<least>> \o SortedKeys(keyset \ {least})

\* "/".join([f"{name}={val}" for name, val in zip(partition_cols, keys)])
Subdir(cols, keys) ==
    JoinStr("/", [i \in 1..Len(cols) |-> cols[i] \o "=" \o IntToStr(keys[i])])

\* prefix = f"{path}{subdir}/"
PartitionPrefix(p, cols, keys) == p \o Subdir(cols, keys) \o "/"

\* compression_ext of _write_csv_file and _write_parquet_file: None and gzip
\* for both, snappy for Parquet; any other token raises InvalidCompression
CompressionExt(writer, codec) ==
    IF codec = "None" THEN [status |-> "ok", ext |-> ""]
    ELSE IF writer = "parquet" /\ codec = "snappy" THEN [status |-> "ok", ext |-> ".snappy"]
    ELSE IF codec = "gzip" THEN [status |-> "ok", ext |-> ".gz"]
    ELSE [status |-> "InvalidCompression", ext |-> ""]

\* file_path: f"{path}{uuid4().hex}{compression_ext}.csv" (or .parquet) if
\* filename is None else f"{path}{filename}"
FilePath(writer, prefix, fname, uuid, codec) ==
    IF fname.some THEN prefix \o fname.val
    ELSE prefix \o uuid \o CompressionExt(writer, codec).ext \o "." \o writer

\* one call of file_writer that _writer_factory has still to make: the
\* prefix it writes under, and whether the prefix is cleared first
WorkItem(prefix, clear) == [prefix |-> prefix, clear |-> clear]

\* a mutant of ClearsPath: only "overwrite" clears the path
ClearsPathOverwriteOnly(fname, cols, m) == ~fname.some /\ m = "overwrite"

\* the condition of the delete_objects_prefix of the whole path
ClearsPath(fname, cols, m) ==
    /\ ~fname.some
    /\ m = "overwrite" \/ (m = "partition_upsert" /\ Len(OrEmpty(cols)) = 0)

\* the files of an unpartitioned write: one if num_files < 2, else one for
\* each part of np.array_split(df, num_files)
FilesOf(n) == IF n < 2 THEN 1 ELSE n

\* the calls of file_writer of _writer_factory, in their order, p being the
\* path with its trailing slash
WriterWork(p, fname, cols, n, m, rows) ==
    IF fname.some THEN <<WorkItem(p, FALSE)>>
    ELSE IF Len(OrEmpty(cols)) = 0 THEN [i \in 1..FilesOf(n) |-> WorkItem(p, FALSE)]
    ELSE LET keys == SortedKeys(GroupKeys(rows, cols.val))
         IN  [i \in 1..Len(keys) |->
                 WorkItem(PartitionPrefix(p, cols.val, keys[i]), m = "partition_upsert")]

\* the rows and the tables written
WriteRowInputs ==
    {[a |-> x, b |-> y] : x \in {ValueOf(1), ValueOf(2), NoValue}, y \in {ValueOf(7)}}

WriteTableInputs == UNION {[1..n -> WriteRowInputs] : n \in 0..MaxWriteRows}

WritePathInputs == {"s3://bucket/p", "s3://bucket/p/"}

WritePartitionColsInputs == {None, Some(<<>>), Some(<<"a">>), Some(<<"a", "b">>)}

WriteFilenameInputs == {NoFilename, FilenameOf("old.csv")}

WriteModeInputs == {"append", "overwrite", "partition_upsert"}

WriteCompressionInputs == {"None", "gzip", "snappy", "bz2"}

\* the stores a call may find: empty, or holding objects under the path,
\* under partitions of it, and next to it
StoreInputs ==
    {{},
     {"s3://bucket/p/old.csv", "s3://bucket/p/a=1/old.csv",
      "s3://bucket/p/a=1/b=7/old.csv", "s3://bucket/p/a=10/old.csv",
      "s3://bucket/p2/old.csv"}}

\* what a call of to_csv or to_parquet leaves alone
notWriteVars == <<dtype, patype, index, cast_columns, partitions, dirs, waitVars,
                  buckets, bucket_i, work, requests, readVars>>

\* before the call of to_csv or to_parquet: the store holds some objects
InitWrite ==
    /\ pc = "ready"
    /\ op = "none"
    /\ ret = [status |-> "none"]
    /\ path = ""
    /\ TypesIdle
    /\ WaitIdle
    /\ DeleteIdle
    /\ file_writer = "none"
    /\ filename = NoFilename
    /\ num_files = 1
    /\ mode = "append"
    /\ compression = "None"
    /\ objects \in StoreInputs
    /\ before = objects
    /\ todo = <<>>
    /\ uploaded = <<>>

\* to_csv / to_parquet and the head of _writer_factory, on a machine of
\* cpu_count CPUs: cpus, paths = [], the trailing slash of path, and the
\* calls of file_writer to come
CallWrite(writer, table, p, fname, cols, n, m, par, cpu_count, codec) ==
    /\ pc = "ready"
    /\ op' = "write"
    /\ file_writer' = writer
    /\ df' = table
    /\ path' = WithTrailingSlash(p)
    /\ filename' = fname
    /\ partition_cols' = cols
    /\ num_files' = n
    /\ mode' = m
    /\ parallel' = par
    /\ cpus' = get_cpu_count(par, cpu_count)
    /\ compression' = codec
    /\ paths' = <<>>
    /\ todo' = WriterWork(WithTrailingSlash(p), fname, cols, n, m, table)
    /\ pc' = IF ClearsPath(fname, cols, m) THEN "delete" ELSE "write"
    /\ UNCHANGED <<ret, objects, before, uploaded, notWriteVars>>

\* self.delete_objects_prefix(path=path, parallel=parallel) of the whole path
DeletePath ==
    /\ pc = "delete"
    /\ objects' = delete_objects_prefix(objects, path)
    /\ pc' = "write"
    /\ UNCHANGED <<op, ret, df, path, partition_cols, paths, parallel, cpus,
                   file_writer, filename, num_files, mode, compression,
                   before, todo, uploaded, notWriteVars>>

\* self.delete_objects_prefix(path=prefix, parallel=parallel) of the
\* partition the loop is at
DeletePartition ==
    /\ pc = "write"
    /\ Len(todo) > 0
    /\ Head(todo).clear
    /\ objects' = delete_objects_prefix(objects, Head(todo).prefix)
    /\ todo' = [todo EXCEPT ![1].clear = FALSE]
    /\ UNCHANGED <<pc, op, ret, df, path, partition_cols, paths, parallel, cpus,
                   file_writer, filename, num_files, mode, compression,
                   before, uploaded, notWriteVars>>

\* one call of file_writer: InvalidCompression for a token it does not know;
\* otherwise the file is uploaded under a name uuid4 gives and its path is
\* appended to paths
WriteFile(uuid) ==
    /\ pc = "write"
    /\ Len(todo) > 0
    /\ ~Head(todo).clear
    /\ IF CompressionExt(file_writer, compression).status # "ok"
       THEN /\ pc' = "raised"
            /\ ret' = [status |-> "InvalidCompression", paths |-> <<>>]
            /\ UNCHANGED <<objects, paths, todo, uploaded>>
       ELSE LET file_path == FilePath(file_writer, Head(todo).prefix, filename, uuid,
                                      compression)
            IN  /\ filename.some \/ file_path \notin objects \cup before
                /\ objects' = objects \cup {file_path}
                /\ uploaded' = Append(uploaded, file_path)
                /\ paths' = Append(paths, file_path)
                /\ todo' = Tail(todo)
                /\ UNCHANGED <<pc, ret>>
    /\ UNCHANGED <<op, df, path, partition_cols, parallel, cpus,
                   file_writer, filename, num_files, mode, compression,
                   before, notWriteVars>>

\* return paths
ReturnPaths ==
    /\ pc = "write"
    /\ Len(todo) = 0
    /\ pc' = "returned"
    /\ ret' = [status |-> "ok", paths |-> paths]
    /\ UNCHANGED <<op, df, path, partition_cols, paths, parallel, cpus, writeVars,
                   notWriteVars>>

NextWrite ==
    \/ pc = "ready" /\ \E writer \in {"csv", "parquet"}, table \in WriteTableInputs,
                          p \in WritePathInputs, fname \in WriteFilenameInputs,
                          cols \in WritePartitionColsInputs, n \in 0..MaxFiles,
                          m \in WriteModeInputs, par \in BOOLEAN,
                          cpu_count \in {MaxCpus}, codec \in WriteCompressionInputs :
           CallWrite(writer, table, p, fname, cols, n, m, par, cpu_count, codec)
    \/ DeletePath
    \/ DeletePartition
    \/ \E uuid \in Uuids : WriteFile(uuid)
    \/ ReturnPaths

SpecWrite == InitWrite /\ [][NextWrite]_vars

(***************************************************************************)
(* Properties of the type mapper.                                          *)
(***************************************************************************)
\* the non-composite tags of the vocabulary
NonCompositeTags == ScalarTags \cup DecimalTags

\* the tags pyarrow2athena renders a type as: one per columnar type
CanonicalTags == {"tinyint", "smallint", "int", "bigint", "float", "double", "boolean",
                  "string", "timestamp", "date", "binary"} \cup DecimalTags

\* C1, as stated: for every non-composite tag T of the vocabulary,
\* pyarrow2athena(athena2pyarrow(T)) returns exactly T.
C1_RoundTripEveryTag ==
    /\ (op = "athena2pyarrow" /\ dtype \in NonCompositeTags) => ret.status = "ok"
    /\ (op = "roundtrip" /\ dtype \in NonCompositeTags) => ret = ReturnStr(dtype)

\* C1, amended: the round trip returns exactly T for every canonical
\* non-composite tag (decimal keeps precision and scale); the aliases do not
\* come back: integer returns int, char and varchar return string.
C1_RoundTripCanonical ==
    /\ (op = "athena2pyarrow" /\ dtype \in CanonicalTags \cup {"integer", "char", "varchar"})
           => ret.status = "ok"
    /\ (op = "roundtrip" /\ dtype \in CanonicalTags) => ret = ReturnStr(dtype)
    /\ (op = "roundtrip" /\ dtype = "integer") => ret = ReturnStr("int")
    /\ (op = "roundtrip" /\ dtype \in {"char", "varchar"}) => ret = ReturnStr("string")

\* a decimal with distinct precision and scale has made the round trip
C1_Witness ==
    /\ op = "roundtrip"
    /\ dtype = DecimalTagOf(MaxPrecision, 1)
    /\ patype = PaDecimal128(MaxPrecision, 1)
    /\ ret = ReturnStr(dtype)

\* the columnar type the vocabulary assigns to a lower-case tag
AssignedType(tag) ==
    IF tag = "tinyint" THEN PaInt8
    ELSE IF tag = "smallint" THEN PaInt16
    ELSE IF tag \in {"int", "integer"} THEN PaInt32
    ELSE IF tag = "bigint" THEN PaInt64
    ELSE IF tag = "float" THEN PaFloat32
    ELSE IF tag = "double" THEN PaFloat64
    ELSE IF tag = "boolean" THEN PaBool
    ELSE IF tag \in {"string", "char", "varchar", "array", "row", "map"} THEN PaString
    ELSE IF tag = "timestamp" THEN PaTimestamp("ns")
    ELSE IF tag = "date" THEN PaDate32
    ELSE IF tag \in {"binary", "varbinary"} THEN PaBinary
    ELSE LET ps == CHOOSE x \in (1..MaxPrecision) \X (0..MaxPrecision) :
                       DecimalTagOf(x[1], x[2]) = tag
         IN  PaDecimal128(ps[1], ps[2])

\* C2, as stated: athena2pyarrow accepts every tag of the vocabulary in any
\* letter case and returns the columnar type the vocabulary assigns to it.
C2_AcceptsEveryTag ==
    (op = "athena2pyarrow" /\ Lower(dtype) \in VocabularyTags)
        => ret = ReturnType(AssignedType(Lower(dtype)))

\* C3, as stated: every string that is no tag of the vocabulary, lower-cased,
\* makes athena2pyarrow and athena2pandas fail with UnsupportedType.
C3_OnlyUnsupportedType ==
    (op \in {"athena2pyarrow", "athena2pandas"} /\ Lower(dtype) \notin VocabularyTags)
        => ret.status = "UnsupportedType"

RECURSIVE WrapsNull(_)
\* the untyped marker itself, or as the value type of a dictionary or the
\* element type of a list
WrapsNull(t) ==
    \/ t = PaNull
    \/ t.k \in {"dictionary", "list"} /\ WrapsNull(t.v)

\* the cast keys of the call
CastKeys == DictKeys(OrEmpty(cast_columns))

\* the positions of the all-null columns that cast_columns does not name
UntypedColumns ==
    {i \in 1..Len(df) : /\ df[i].dtype = "object"
                        /\ df[i].inferred = PaNull
                        /\ ~InList(df[i].name, CastKeys)}

\* column i goes through inference and has a type pyarrow2athena has no tag for
UnsupportedColumn(i) ==
    /\ ~InList(df[i].name, CastKeys)
    /\ df[i].dtype \notin ExtensionDtypes
    /\ pyarrow2athena(df[i].inferred).status = "UnsupportedType"

SchemaOps == {"athena_types_from_pandas", "athena_types_from_pandas_partitioned"}

\* C4, as stated: the untyped marker is never given a tag, and a table with an
\* all-null column that cast_columns does not name fails with UndetectedType.
C4_AlwaysUndetectedType ==
    /\ (op = "pyarrow2athena" /\ WrapsNull(patype)) => ret.status = "UndetectedType"
    /\ (op = "athena_types_from_pandas" /\ UntypedColumns # {})
           => ret.status = "UndetectedType"

\* C4, amended: the untyped marker is never given a tag; a table with an
\* all-null column that cast_columns does not name never gets a schema: the
\* call fails with UndetectedType, unless a column before the first such
\* column, also not named in cast_columns, has an unsupported columnar type,
\* and then it fails with that column's UnsupportedType.
C4_NullNeverTyped ==
    /\ (op = "pyarrow2athena" /\ WrapsNull(patype)) => ret.status = "UndetectedType"
    /\ (op = "athena_types_from_pandas" /\ UntypedColumns # {})
           => LET first == CHOOSE i \in UntypedColumns : \A j \in UntypedColumns : i <= j
              IN  ret.status = IF \E j \in 1..(first - 1) : UnsupportedColumn(j)
                               THEN "UnsupportedType" ELSE "UndetectedType"

\* an all-null column follows an overridden one, and the call has failed
C4_Witness ==
    /\ op = "athena_types_from_pandas"
    /\ Len(df) = 2
    /\ CastKeys = <<"id">>
    /\ UntypedColumns = {2}
    /\ ret.status = "UndetectedType"

RECURSIVE UnwrapDictionary(_)
UnwrapDictionary(t) == IF t.k = "dictionary" THEN UnwrapDictionary(t.v) ELSE t

\* the tag of each scalar columnar type
ScalarTagOf(t) ==
    IF t = PaInt8 THEN "tinyint"
    ELSE IF t = PaInt16 THEN "smallint"
    ELSE IF t = PaInt32 THEN "int"
    ELSE IF t = PaInt64 THEN "bigint"
    ELSE IF t = PaFloat32 THEN "float"
    ELSE IF t = PaFloat64 THEN "double"
    ELSE IF t = PaBool THEN "boolean"
    ELSE IF t = PaString THEN "string"
    ELSE IF t = PaTimestamp("ns") THEN "timestamp"
    ELSE IF t = PaDate32 THEN "date"
    ELSE "binary"

ScalarTypes == {PaInt8, PaInt16, PaInt32, PaInt64, PaFloat32, PaFloat64, PaBool, PaString,
                PaTimestamp("ns"), PaDate32, PaBinary}

\* C5: pyarrow2athena maps each scalar type to its canonical tag, a dictionary
\* at any depth to the tag of its value type, decimal128(p,s) to "decimal(p,s)",
\* list<T> to "array<tag(T)>" and a struct to "struct<n1: t1, n2: t2>", fields in
\* declaration order, joined by comma-space.
C5_Rendering ==
    op = "pyarrow2athena" =>
        /\ patype \in ScalarTypes => ret = ReturnStr(ScalarTagOf(patype))
        /\ patype.k = "dictionary" => ret = pyarrow2athena(UnwrapDictionary(patype))
        /\ patype.k = "decimal128" => ret = ReturnStr(DecimalTagOf(patype.p, patype.s))
        /\ (patype.k = "list" /\ pyarrow2athena(patype.v).status = "ok")
               => ret = ReturnStr("array<" \o pyarrow2athena(patype.v).str \o ">")
        /\ (/\ patype.k = "struct"
            /\ \A i \in 1..Len(patype.fields) :
                   pyarrow2athena(patype.fields[i].type).status = "ok")
               => LET f == patype.fields
                      one(i) == f[i].name \o ": " \o pyarrow2athena(f[i].type).str
                  IN  ret = ReturnStr("struct<"
                                \o (IF Len(f) = 1 THEN one(1) ELSE one(1) \o ", " \o one(2))
                                \o ">")

\* a struct of two fields, one of them a list, has been rendered
C5_Witness ==
    /\ op = "pyarrow2athena"
    /\ patype = PaStruct(<<PaField("b", PaList(PaInt64)), PaField("a", PaString)>>)
    /\ ret = ReturnStr("struct<b: array<bigint>, a: string>")

\* C6, as stated: athena2pandas returns a scalar kind for every tag of the
\* vocabulary, and accepts every tag athena2pyarrow accepts.
C6_PandasAcceptsPyarrowTags ==
    (op = "athena2pandas"
        /\ (Lower(dtype) \in VocabularyTags \/ athena2pyarrow(dtype).status = "ok"))
        => ret.status = "ok"

(***************************************************************************)
(* Properties of the schema inferrer.                                      *)
(***************************************************************************)
\* the keys of the schema a successful call returns: the declared columns in
\* table order, then the index when it is asked for
ExpectedKeys ==
    DfColumns(df) \o (IF index THEN <<IndexField.name>> ELSE <<>>)

\* C7: every declared column named in cast_columns gets exactly the override
\* string, whatever inference gives for it (also the untyped marker); every
\* other column, and the index, gets pyarrow2athena of its inferred type.
C7_OverrideWins ==
    (op = "athena_types_from_pandas" /\ ret.status = "ok") =>
        /\ DictKeys(ret.types) = ExpectedKeys
        /\ \A i \in 1..Len(df) :
               DictGet(ret.types, df[i].name) =
                   IF InList(df[i].name, CastKeys)
                   THEN DictGet(cast_columns.val, df[i].name)
                   ELSE pyarrow2athena(df[i].inferred).str
        /\ index => DictGet(ret.types, IndexField.name) = pyarrow2athena(IndexField.type).str

\* an all-null column and an inferred column are both overridden, the
\* override spelt in upper case, and a third column is inferred
C7_Witness ==
    /\ op = "athena_types_from_pandas"
    /\ ret.status = "ok"
    /\ Len(df) = 3
    /\ df[1].inferred = PaNull
    /\ df[3].inferred = PaInt64
    /\ cast_columns = Some(<<Entry("id", "BIGINT"), Entry("date", "string")>>)
    /\ ret.types = <<Entry("id", "BIGINT"), Entry("name", "string"), Entry("date", "string")>>

\* the set of the elements of a sequence
Range(seq) == {seq[i] : i \in 1..Len(seq)}

\* C8: the column map and the partition map have disjoint key sets whose
\* union is the key set of athena_types_from_pandas for the same arguments; a
\* column is in the partition map iff partition_cols names it; every column
\* keeps its catalog type; no partition_cols, no partition map.
C8_SplitIsPartition ==
    op = "athena_types_from_pandas_partitioned" =>
        LET full == athena_types_from_pandas(df, index, cast_columns)
            ckeys == Range(DictKeys(ret.columns_types))
            pkeys == Range(DictKeys(ret.partitions_types))
            listed == IF partition_cols.some THEN Range(partition_cols.val) ELSE {}
        IN  /\ ret.status = full.status
            /\ ret.status = "ok" =>
                /\ ckeys \cap pkeys = {}
                /\ ckeys \cup pkeys = Range(DictKeys(full.types))
                /\ Len(ret.columns_types) + Len(ret.partitions_types) = Len(full.types)
                /\ \A key \in Range(DictKeys(full.types)) :
                       /\ key \in pkeys <=> key \in listed
                       /\ key \in pkeys =>
                              DictGet(ret.partitions_types, key) = DictGet(full.types, key)
                       /\ key \in ckeys =>
                              DictGet(ret.columns_types, key) = DictGet(full.types, key)
                /\ listed = {} => ret.partitions_types = <<>>

\* two partition columns have been split from a third column and the index
C8_Witness ==
    /\ op = "athena_types_from_pandas_partitioned"
    /\ ret.status = "ok"
    /\ index
    /\ partition_cols = Some(<<"name", "date">>)
    /\ DictKeys(ret.partitions_types) = <<"name", "date">>
    /\ DictKeys(ret.columns_types) = <<"id", "__index_level_0__">>

\* C9, as stated: the partition map lists the partition columns in the order
\* of the caller's partition_cols list, and the column map lists the other
\* columns in table order.
C9_PartitionsInCallerOrder ==
    (op = "athena_types_from_pandas_partitioned" /\ ret.status = "ok") =>
        LET full == athena_types_from_pandas(df, index, cast_columns).types
            listed == OrEmpty(partition_cols)
            Present(key) == DictHas(full, key)
            Unlisted(key) == ~InList(key, listed)
        IN  /\ DictKeys(ret.partitions_types) = SelectSeq(listed, Present)
            /\ DictKeys(ret.columns_types) = SelectSeq(DictKeys(full), Unlisted)

\* a catalog type string in lower-case canonical form: a tag of the
\* vocabulary, or a rendered array or struct
IsCanonicalOutput(tag) ==
    /\ tag = Lower(tag)
    /\ \/ tag \in VocabularyTags
       \/ StartsWith(tag, "array<")
       \/ StartsWith(tag, "struct<")

\* C10, as stated: when every value of cast_columns is a tag of the vocabulary
\* in some letter case, every catalog type in the output is a lower-case
\* canonical member of the vocabulary.
C10_OutputIsCanonical ==
    (/\ op \in SchemaOps
     /\ ret.status = "ok"
     /\ \A i \in 1..Len(OrEmpty(cast_columns)) :
            Lower(OrEmpty(cast_columns)[i].v) \in VocabularyTags) =>
        LET out == IF op = "athena_types_from_pandas" THEN ret.types
                   ELSE ret.columns_types \o ret.partitions_types
        IN  \A i \in 1..Len(out) : IsCanonicalOutput(out[i].v)

(***************************************************************************)
(* Partition paths.                                                        *)
(***************************************************************************)
\* the directory base + "k1=v1/.../kn=vn/" of a tuple of one or two values
DirectoryOf(base, values) ==
    IF Len(values) = 1
    THEN base \o PartitionNames[1] \o "=" \o values[1] \o "/"
    ELSE base \o PartitionNames[1] \o "=" \o values[1] \o "/"
              \o PartitionNames[2] \o "=" \o values[2] \o "/"

\* the i-th value of every key, for the positions every key has; no key,
\* no tuple
AlignedTuples ==
    {[j \in 1..Len(partitions) |-> partitions[j].keys[i]] :
        i \in {n \in 1..MaxDirs + 1 :
                  /\ Len(partitions) > 0
                  /\ \A j \in 1..Len(partitions) : n <= Len(partitions[j].keys)}}

\* the same location spelled with or without its trailing separator
SameLocation(p, q) == p = q \/ p \o "/" = q \/ q \o "/" = p

\* C11: athena_partitions_from_pyarrow_partitions maps every tuple of
\* position-wise aligned values (v1..vn) to base + "k1=v1/.../kn=vn/" ->
\* [v1..vn], base being the path with "/" appended only when it is missing,
\* and to nothing else; the path spelled with or without the trailing
\* separator gives the same mapping, and so does a repeated call.
C11_PartitionPaths ==
    op = "athena_partitions_from_pyarrow_partitions" =>
        LET base == IF Char(path, Len(path)) = "/" THEN path ELSE path \o "/"
            out == ret.partitions_values
        IN  /\ ret.status = "ok"
            /\ \A values \in AlignedTuples :
                   /\ DictHas(out, DirectoryOf(base, values))
                   /\ DictGet(out, DirectoryOf(base, values)) = values
            /\ \A i \in 1..Len(out) :
                   /\ out[i].v \in AlignedTuples
                   /\ out[i].k = DirectoryOf(base, out[i].v)
                   /\ \A j \in 1..Len(out) : out[j].k = out[i].k => j = i
            /\ \A q \in PathInputs :
                   SameLocation(path, q) =>
                       athena_partitions_from_pyarrow_partitions(q, partitions) = ret
            /\ athena_partitions_from_pyarrow_partitions(path, partitions) = ret

\* a dataset of two keys and two directories, its path given without the
\* trailing separator, has been mapped
C11_Witness ==
    /\ op = "athena_partitions_from_pyarrow_partitions"
    /\ Char(path, Len(path)) # "/"
    /\ Len(partitions) = 2
    /\ Len(ret.partitions_values) = 2

\* C12, as stated: the result has exactly one entry for every partition
\* directory that exists in storage, and no entry for a combination of key
\* values that does not exist.
C12_ExactlyExistingDirectories ==
    op = "athena_partitions_from_pyarrow_partitions" =>
        LET out == ret.partitions_values
        IN  /\ \A i \in 1..Len(dirs) :
                   \E j \in 1..Len(out) : out[j].v = dirs[i]
            /\ \A j \in 1..Len(out) :
                   \E i \in 1..Len(dirs) : out[j].v = dirs[i]

(***************************************************************************)
(* The caster.                                                             *)
(***************************************************************************)
CastCall == op = "cast_pandas_with_athena_types"

\* the i-th column of the table is named by an override
Overridden(i) == DictHas(cast_columns, df[i].name)

\* the scalar kind of the override of the i-th column
KindOf(i) == athena2pandas(DictGet(cast_columns, df[i].name))

\* the table after the call has the columns of the table before it
SameColumns ==
    /\ Len(ret.df) = Len(df)
    /\ \A i \in 1..Len(df) : ret.df[i].name = df[i].name

\* C13: cast_pandas_with_athena_types converts exactly the columns named in
\* cast_columns and present in the table, each by the one conversion that
\* athena2pandas of its override chooses; every other column is unchanged,
\* and an override of an absent column has no effect: the call succeeds
\* exactly when the overrides of the present columns are supported and
\* their conversions succeed.
C13_ConvertsNamedPresent ==
    CastCall =>
        LET Conv(i) == ConvertColumn(KindOf(i).str, df[i].values)
            Good(i) == KindOf(i).status = "ok" /\ Conv(i).status = "ok"
        IN  /\ SameColumns
            /\ \A i \in 1..Len(df) : ~Overridden(i) => ret.df[i] = df[i]
            /\ ret.status = "ok" <=> \A i \in 1..Len(df) : Overridden(i) => Good(i)
            /\ ret.status = "ok" =>
                   \A i \in 1..Len(df) :
                       Overridden(i) => ret.df[i].values = Conv(i).values

\* a table of two columns was cast with an override of its first column and
\* an unsupported override of an absent column: the first column is
\* converted, the second is as it was
C13_Witness ==
    /\ CastCall
    /\ ret.status = "ok"
    /\ Len(df) = 2
    /\ Overridden(1) /\ ret.df[1] # df[1]
    /\ ~Overridden(2) /\ ret.df[2] = df[2]
    /\ \E j \in 1..Len(cast_columns) :
           /\ ~HasColumn(df, cast_columns[j].k)
           /\ athena2pandas(cast_columns[j].v).status = "UnsupportedType"

\* the string form of a source value: <NA> for a missing one
StringForm(x) == IF x.kind = "str" THEN x.val ELSE "<NA>"

\* the i-th column has a decimal override, and no override before it in
\* cast_columns makes the call raise
DecimalOverride(i) ==
    /\ Overridden(i)
    /\ KindOf(i).str = "decimal"
    /\ \A j \in 1..Len(df) :
           (Overridden(j) /\ j # i) =>
               /\ KindOf(j).status = "ok"
               /\ ConvertColumn(KindOf(j).str, df[j].values).status = "ok"

\* C14: under a decimal override a value becomes the absent marker exactly
\* when its string form is "", "none", " " or "<NA>"; every other value is
\* parsed as a decimal, and one that is no valid decimal makes the call
\* raise.
C14_DecimalSwallowsFourForms ==
    CastCall =>
        \A i \in 1..Len(df) :
            DecimalOverride(i) =>
                LET Swallowed(r) == StringForm(df[i].values[r]) \in {"", "none", " ", "<NA>"}
                    Invalid(r) == ~Swallowed(r) /\ ~IsDecimalLiteral(StringForm(df[i].values[r]))
                IN  /\ (\E r \in 1..Len(df[i].values) : Invalid(r)) =>
                           ret.status = "InvalidOperation"
                    /\ (\A r \in 1..Len(df[i].values) : ~Invalid(r)) =>
                           /\ ret.status = "ok"
                           /\ \A r \in 1..Len(df[i].values) :
                                  /\ Swallowed(r) <=> ret.df[i].values[r] = NoneCell
                                  /\ ~Swallowed(r) =>
                                         ret.df[i].values[r].kind = "Decimal"

\* a column holding the string none was cast to decimal and holds the absent
\* marker
C14_Witness ==
    /\ CastCall
    /\ ret.status = "ok"
    /\ \E i \in 1..Len(df) :
           /\ DecimalOverride(i)
           /\ \E r \in 1..Len(df[i].values) :
                  /\ df[i].values[r] = StrCell("none")
                  /\ ret.df[i].values[r] = NoneCell

\* C15, as stated: a call whose only overrides of present columns are date
\* overrides never raises, and leaves in each such column calendar dates and
\* absent markers.
C15_DateNeverRaises ==
    (/\ CastCall
     /\ \A i \in 1..Len(df) : Overridden(i) => KindOf(i).str = "date") =>
        /\ ret.status = "ok"
        /\ \A i \in 1..Len(df) :
               Overridden(i) =>
                   \A r \in 1..Len(ret.df[i].values) :
                       ret.df[i].values[r].kind \in {"date", "None"}

\* C16, as stated: when the call raises, the caller's table is as it was
\* before the call.
C16_FailureLeavesTableUnchanged ==
    (CastCall /\ ret.status # "ok") => ret.df = df

(***************************************************************************)
(* The polling wait.                                                       *)
(***************************************************************************)
WaitCall == op = "wait_object_exists"

WaitEnded == WaitCall /\ pc \in {"returned", "raised"}

\* the call returned, and its last check saw the object
EndedBySuccess == pc = "returned" /\ ret.status = "ok" /\ response = "200"

\* the call raised S3WaitObjectTimeout, a timeout was given and the
\* accumulated sleep has reached it
EndedByTimeout ==
    /\ pc = "raised"
    /\ ret.status = "S3WaitObjectTimeout"
    /\ timeout.some
    /\ time_acc >= timeout.val

\* the call raised what its last existence check raised: the failure of
\* head_object that is not a 404, or the path that has no key
EndedByCheckError ==
    /\ pc = "raised"
    /\ \/ ret.status = "ClientError" /\ response \in {"403", "500"}
       \/ ret.status = "ValueError" /\ Find(Replace(path, "s3://", ""), "/") = 0

\* C17, as stated: the call ends by returning after a check that saw the
\* object, or by S3WaitObjectTimeout with the accumulated sleep at the
\* timeout, and in no other way; it returns without sleeping when the first
\* check sees the object.
C17_OnlySuccessOrTimeout ==
    WaitEnded =>
        /\ EndedBySuccess \/ EndedByTimeout
        /\ (pc = "returned" /\ checks = 1) => sleeps = 0

\* C17, amended: the call ends by returning after a check that saw the
\* object, by S3WaitObjectTimeout with the accumulated sleep at the timeout,
\* or by the exception of an existence check, which is propagated; it
\* returns without sleeping when the first check sees the object.
C17_SuccessTimeoutOrCheckError ==
    WaitEnded =>
        /\ EndedBySuccess \/ EndedByTimeout \/ EndedByCheckError
        /\ (pc = "returned" /\ checks = 1) => sleeps = 0

\* a call that slept at least once ended by the failure of a later check
C17_Witness ==
    /\ WaitEnded
    /\ EndedByCheckError
    /\ ret.status = "ClientError"
    /\ sleeps >= 1

\* C18, as stated: whatever polling_sleep >= 0 and timeout (a number or
\* None) are, a call for an object that never exists, none of whose checks
\* fails, ends by raising S3WaitObjectTimeout.
C18_WaitTerminates ==
    [](~exists /\ ret.status \notin {"ClientError", "ValueError"}) =>
        (WaitCall ~> (pc = "raised" /\ ret.status = "S3WaitObjectTimeout"))

(***************************************************************************)
(* Deletion.                                                               *)
(***************************************************************************)
RECURSIVE Flatten(_)
\* the lists of a list, joined
Flatten(lists) == IF Len(lists) = 0 THEN <<>> ELSE Head(lists) \o Flatten(Tail(lists))

\* the requests the store has received, process after process
AllRequests == Flatten(requests)

RECURSIVE KeysSent(_)
\* the number of keys the requests carry
KeysSent(reqs) ==
    IF Len(reqs) = 0 THEN 0 ELSE Len(Head(reqs).Objects) + KeysSent(Tail(reqs))

\* C19: of the distinct paths listed, every key is sent for deletion exactly
\* once, in a request addressed to the bucket of its path; no request
\* carries more than 1000 keys or a key that was not listed, in the calling
\* process or in workers; an empty list issues no request.
C19_EachKeyDeletedOnce ==
    op = "delete_objects_list" =>
        LET listed == {parse_path(paths[j]) : j \in 1..Len(paths)}
            reqs == AllRequests
            sent == UNION {{[bucket |-> reqs[r].Bucket, key |-> reqs[r].Objects[i]] :
                               i \in 1..Len(reqs[r].Objects)} :
                           r \in 1..Len(reqs)}
        IN  /\ \A r \in 1..Len(reqs) : Len(reqs[r].Objects) <= 1000
            /\ sent \subseteq listed
            /\ KeysSent(reqs) = Cardinality(sent)
            /\ pc = "returned" => sent = listed
            /\ Len(paths) = 0 => reqs = <<>>

\* a listing of more than two thousand keys of two buckets has been deleted
\* by several workers
C19_Witness ==
    /\ op = "delete_objects_list"
    /\ pc = "returned"
    /\ Len(paths) > 2 * 1000
    /\ Len(buckets) = 2
    /\ cpus > 1
    /\ Len(AllRequests) >= 3


(***************************************************************************)
(* The list readers                                                        *)
(***************************************************************************)
\* a call of read_csv_list or read_parquet_list that returns one table:
\* chunked is False, or parallel is True and chunked has no effect; the
\* caller names at least one path and leaves the compression to be inferred
ReadTableCall ==
    /\ op = "read_list"
    /\ pc = "returned"
    /\ parallel \/ ~chunked
    /\ Len(paths) > 0
    /\ pd_kwargs = "infer"

\* C20: read_csv_list and read_parquet_list with chunked=False (or with
\* parallel=True, where chunked has no effect) return the concatenation of
\* the per-file tables in the order of the caller's paths, whatever
\* parallel is: the rows of the result are the rows of the files of paths,
\* one after the other
C20_ConcatenationInPathsOrder ==
    ReadTableCall =>
        /\ ret.status = "ok"
        /\ ret.kind = "table"
        /\ ret.df = paths


(***************************************************************************)
(* The compression _read_csv decodes each file with                        *)
(***************************************************************************)
RECURSIVE KeywordAt(_, _, _)
\* pd_kwargs['compression'] as the loop of _read_csv finds it when it comes
\* to the i-th path, kw being the keyword the call was made with
KeywordAt(ps, i, kw) ==
    IF i = 1 THEN kw
    ELSE CompressionFor(KeywordAt(ps, i - 1, kw), ps[i - 1])

\* one call of _read_csv on a list of several paths with the compression
\* left at "infer": read_csv_list with parallel=False and chunked=False
ReadCsvSeveralCall ==
    /\ op = "read_list"
    /\ pc = "returned"
    /\ reader = "csv"
    /\ ~parallel
    /\ ~chunked
    /\ pd_kwargs = "infer"
    /\ Len(paths) > 1

\* C24: when _read_csv reads several paths with compression left at
\* "infer", every file is decoded with the compression inferred from its own
\* path; the inference for one path does not carry over to the next ones
C24_EachFileItsOwnCodec ==
    ReadCsvSeveralCall =>
        \A i \in 1..Len(paths) :
            CompressionFor(KeywordAt(paths, i, pd_kwargs), paths[i])
                = infer_compression(paths[i])


(***************************************************************************)
(* Properties of to_csv and to_parquet.                                    *)
(***************************************************************************)
\* the set of the elements of a list
RangeOf(list) == {list[i] : i \in 1..Len(list)}

\* a call of to_csv or to_parquet that has returned
WriteReturned == op = "write" /\ pc = "returned"

\* the call writes a partitioned dataset
Partitioned == ~filename.some /\ Len(OrEmpty(partition_cols)) > 0

\* the distinct partition-key tuples of the rows of the table
DistinctKeyTuples == {KeysOfRow(df[r], partition_cols.val) : r \in 1..Len(df)}

\* C21: to_csv and to_parquet return exactly the list of the paths they
\* uploaded, in upload order: path + filename alone when a filename is
\* given; otherwise, with partition columns, one path for each distinct
\* partition-key tuple of the table; otherwise num_files paths when
\* num_files >= 2 and one path when num_files < 2
C21_ReturnsUploadedPaths ==
    WriteReturned =>
        /\ ret.paths = uploaded
        /\ filename.some => ret.paths = <<path \o filename.val>>
        /\ Partitioned => Len(ret.paths) = Cardinality(DistinctKeyTuples)
        /\ (~filename.some /\ ~Partitioned) =>
               Len(ret.paths) = (IF num_files >= 2 THEN num_files ELSE 1)


\* a write with filename=None that clears the whole path: mode "overwrite",
\* or mode "partition_upsert" with no partition columns
ClearingWrite ==
    /\ op = "write"
    /\ ~filename.some
    /\ mode = "overwrite" \/ (mode = "partition_upsert" /\ ~Partitioned)

\* a write that deletes nothing: mode "append", or a filename given
KeepingWrite == op = "write" /\ (mode = "append" \/ filename.some)

\* C22: in a write that clears the path, every object under the path is
\* deleted before the first upload, so that from the first call of the file
\* writer on, and after the return, the objects under the path are exactly
\* the paths uploaded, which are the paths returned; a write with mode
\* "append", or with a filename, deletes no object
C22_PathClearedBeforeUploads ==
    /\ (ClearingWrite /\ pc \in {"write", "returned"}) =>
           list_objects(objects, path) = RangeOf(uploaded)
    /\ (ClearingWrite /\ pc = "returned") =>
           list_objects(objects, path) = RangeOf(ret.paths)
    /\ KeepingWrite => before \subseteq objects

\* an overwrite of a partitioned dataset whose path held objects has
\* returned the two files it wrote
C22_Witness ==
    /\ ClearingWrite
    /\ pc = "returned"
    /\ mode = "overwrite"
    /\ Partitioned
    /\ list_objects(before, path) # {}
    /\ Len(ret.paths) = 2

\* the prefixes of the partitions of the table: one for each key of the
\* groups of its rows
PartitionPrefixes ==
    {PartitionPrefix(path, partition_cols.val, k) : k \in GroupKeys(df, partition_cols.val)}

\* the objects the call has deleted, and the objects it found under the
\* prefixes of the partitions of the table
Deleted == before \ objects

UnderPartitions == UNION {list_objects(before, prefix) : prefix \in PartitionPrefixes}

\* a write with mode "partition_upsert" and partition columns
UpsertWrite == op = "write" /\ Partitioned /\ mode = "partition_upsert"

\* C23: a write with mode "partition_upsert" and partition columns deletes
\* objects under the prefixes of the partitions of the table only, and when
\* it returns it has deleted all of them; every file it has uploaded is
\* still in the store and is the only object under the prefix of its
\* partition, the prefix having been cleared before the upload
C23_UpsertClearsItsPartitionsOnly ==
    UpsertWrite =>
        /\ Deleted \subseteq UnderPartitions
        /\ pc = "returned" => Deleted = UnderPartitions
        /\ \A i \in 1..Len(uploaded) :
               /\ uploaded[i] \in objects
               /\ \E prefix \in PartitionPrefixes :
                      list_objects(objects, prefix) = {uploaded[i]}

\* an upsert of two partitions has returned: it has deleted objects of one
\* of them and left objects of another partition under the path
C23_Witness ==
    /\ UpsertWrite
    /\ pc = "returned"
    /\ Len(uploaded) = 2
    /\ Deleted # {}
    /\ list_objects(objects, path) \cap before # {}

\* a token the file writer does not know
UnsupportedCompression ==
    /\ op = "write"
    /\ compression \notin {"None", "gzip"}
    /\ ~(file_writer = "parquet" /\ compression = "snappy")

\* C25: a write given an unsupported compression token fails with
\* InvalidCompression and leaves the store as it was: it does not return,
\* and at no step has an object been uploaded or deleted
C25_InvalidCompressionChangesNothing ==
    UnsupportedCompression =>
        /\ pc # "returned"
        /\ pc = "raised" => ret.status = "InvalidCompression"
        /\ objects = before

====
